---- MODULE Spec2Model ----
(***************************************************************************)
(* Symbol creation in the elaboration layer of slang:                      *)
(*   VariableSymbol::fromSyntax, NetSymbol::fromSyntax,                    *)
(*   NetSymbol::createImplicit, NetSymbol::checkInitializer                *)
(*     (source/ast/symbols/VariableSymbols.cpp)                            *)
(*   ContinuousAssignSymbol::fromSyntax, ClockingBlockSymbol::fromSyntax   *)
(*     (MemberSymbols.cpp)                                                 *)
(* Every operation runs synchronously on one syntax node in one scope: a   *)
(* state holds the scope, the syntax node handed to the operation, the     *)
(* symbols it produced and the diagnostics it added to the scope.          *)
(***************************************************************************)
EXTENDS Integers, Sequences, FiniteSets, TLC

VARIABLES
    scope,          \* the Scope the operation runs in
    syntax,         \* the syntax node handed to the operation
    netTypeSym,     \* the symbol the caller looked up for a user-defined net
    results,        \* SmallVectorBase<const Symbol*>& results
    implicitNets,   \* SmallVectorBase<const Symbol*>& implicitNets
    diags,          \* diagnostics added with scope.addDiag, in order
    calls,          \* calls made so far, in order
    pc              \* "call" before the operation has run, "done" after

vars == <<scope, syntax, netTypeSym, results, implicitNets, diags, calls, pc>>

\* ------------------------------------------------------------------------
\* Bounds
\* ------------------------------------------------------------------------
MaxModifiers == 2
MaxDeclarators == 2
MaxAssignments == 2
MaxLhs == 2
MaxItems == 3

MaxArgs == 2

MaxTaskCalls == 2

MaxPorts == 3
MaxAssertionPorts == 3
MaxScopeDepth == 2
MaxQueries == 2
MaxDepth == 2
MaxCaseItems == 3
MaxCaseExprs == 2
MaxMergeCalls == 3

\* ------------------------------------------------------------------------
\* Helpers
\* ------------------------------------------------------------------------
SeqsUpTo(S, n) == UNION {[1..k -> S] : k \in 0..n}

Diag(code, at) == [code |-> code, at |-> at]

DiagsWith(code) == {i \in 1..Len(diags) : diags[i].code = code}

DiagsAt(code, at) == {i \in 1..Len(diags) : diags[i] = Diag(code, at)}

NoSymbol == [kind |-> "null"]

\* ------------------------------------------------------------------------
\* VariableSymbol::fromSyntax(DataDeclarationSyntax)
\* ------------------------------------------------------------------------
ModifierKinds == {"VarKeyword", "ConstKeyword", "StaticKeyword", "AutomaticKeyword"}

Names == {"a", "b"}

\* declarator->name and declarator->initializer (present or not)
Declarators == [name : Names, initializer : BOOLEAN]

DataDeclarations ==
    [kind : {"DataDeclaration"},
     modifiers : SeqsUpTo(ModifierKinds, MaxModifiers),
     declarators : SeqsUpTo(Declarators, MaxDeclarators)]

\* The scopes a declaration can be elaborated in. defaultLifetime is the
\* field of StatementBlockSymbol and SubroutineSymbol; definitionKind is the
\* kind of the definition of an InstanceBodySymbol.
ScopeSymbol(kind, lifetime, procedural, defKind) ==
    [kind |-> kind, defaultLifetime |-> lifetime,
     proceduralContext |-> procedural, definitionKind |-> defKind]

DataScopes ==
    {ScopeSymbol(k, l, TRUE, "None") :
        k \in {"StatementBlock", "Subroutine"}, l \in {"Static", "Automatic"}}
    \cup {ScopeSymbol("ProceduralBlock", "None", TRUE, "None")}
    \cup {ScopeSymbol(k, "None", FALSE, "None") :
            k \in {"MethodPrototype", "Package", "CompilationUnit", "ClassType"}}
    \cup {ScopeSymbol("InstanceBody", "None", FALSE, d) : d \in {"Module", "Interface"}}

isProceduralContext(s) == s.proceduralContext

getDefaultLifetime_IgnoreBlock(sym) ==
    CASE sym.kind = "Subroutine" -> sym.defaultLifetime
      [] sym.kind = "MethodPrototype" -> "Automatic"
      [] OTHER -> "Static"

getDefaultLifetime(sym) ==
    CASE sym.kind = "StatementBlock" -> sym.defaultLifetime
      [] sym.kind = "Subroutine" -> sym.defaultLifetime
      [] sym.kind = "MethodPrototype" -> "Automatic"
      [] OTHER -> "Static"

\* One iteration of the loop over syntax.modifiers; st holds the locals
\* isConst and lifetime (std::optional, "None" when empty) and the
\* diagnostics added so far.
ModifierState == [isConst |-> FALSE, lifetime |-> "None", diags |-> <<>>]

applyModifier_KeepAutomatic(st, i, mod, inProceduralContext) ==
    CASE mod = "VarKeyword" -> st
      [] mod = "ConstKeyword" -> [st EXCEPT !.isConst = TRUE]
      [] mod = "StaticKeyword" -> [st EXCEPT !.lifetime = "Static"]
      [] mod = "AutomaticKeyword" ->
            IF ~inProceduralContext
            THEN [st EXCEPT !.lifetime = "Automatic",
                            !.diags = Append(@, Diag("AutomaticNotAllowed", i))]
            ELSE [st EXCEPT !.lifetime = "Automatic"]

applyModifier(st, i, mod, inProceduralContext) ==
    CASE mod = "VarKeyword" -> st
      [] mod = "ConstKeyword" -> [st EXCEPT !.isConst = TRUE]
      [] mod = "StaticKeyword" -> [st EXCEPT !.lifetime = "Static"]
      [] mod = "AutomaticKeyword" ->
            IF ~inProceduralContext
            THEN [st EXCEPT !.lifetime = "Static",
                            !.diags = Append(@, Diag("AutomaticNotAllowed", i))]
            ELSE [st EXCEPT !.lifetime = "Automatic"]

RECURSIVE parseModifiers(_, _, _, _)
parseModifiers(mods, i, st, inProceduralContext) ==
    IF i > Len(mods) THEN st
    ELSE parseModifiers(mods, i + 1,
                        applyModifier(st, i, mods[i], inProceduralContext),
                        inProceduralContext)

\* VariableSymbol::VariableSymbol followed by setFromDeclarator, the Const
\* flag and the InterfaceVariable flag of the declarator loop.
VariableSymbol(declarator, lifetime) ==
    [kind |-> "Variable",
     name |-> declarator.name,
     lifetime |-> lifetime,
     initializer |-> declarator.initializer,
     flags |-> {},
     declaredTypeFlags |-> IF lifetime = "Automatic" THEN {"AutomaticInitializer"} ELSE {}]

variableFlags(isConst) == IF isConst THEN {"Const"} ELSE {}

createVariable(declarator, lifetime, isConst, isInIface) ==
    [VariableSymbol(declarator, lifetime) EXCEPT
        !.flags = @ \cup variableFlags(isConst),
        !.declaredTypeFlags = @ \cup (IF isInIface THEN {"InterfaceVariable"} ELSE {})]

\* The two checks at the end of the declarator loop, for declarator i.
declaratorDiags_NoKeywordTest(s, declarator, i, lifetime, hasExplicitLifetime, isConst) ==
    (IF lifetime = "Static" /\ declarator.initializer /\ isProceduralContext(s)
     THEN <<Diag("StaticInitializerMustBeExplicit", i)>> ELSE <<>>)
    \o (IF isConst /\ ~declarator.initializer
        THEN <<Diag("ConstVarNoInitializer", i)>> ELSE <<>>)

declaratorDiags_ConstWithInit(s, declarator, i, lifetime, hasExplicitLifetime, isConst) ==
    (IF lifetime = "Static" /\ ~hasExplicitLifetime /\ declarator.initializer
        /\ isProceduralContext(s)
     THEN <<Diag("StaticInitializerMustBeExplicit", i)>> ELSE <<>>)
    \o (IF isConst
        THEN <<Diag("ConstVarNoInitializer", i)>> ELSE <<>>)

declaratorDiags(s, declarator, i, lifetime, hasExplicitLifetime, isConst) ==
    (IF lifetime = "Static" /\ ~hasExplicitLifetime /\ declarator.initializer
        /\ isProceduralContext(s)
     THEN <<Diag("StaticInitializerMustBeExplicit", i)>> ELSE <<>>)
    \o (IF isConst /\ ~declarator.initializer
        THEN <<Diag("ConstVarNoInitializer", i)>> ELSE <<>>)

RECURSIVE declaratorLoop(_, _, _, _, _, _, _)
declaratorLoop(s, decls, i, lifetime, hasExplicitLifetime, isConst, acc) ==
    IF i > Len(decls) THEN acc
    ELSE LET isInIface == s.kind = "InstanceBody" /\ s.definitionKind = "Interface"
             variable == createVariable(decls[i], lifetime, isConst, isInIface)
         IN declaratorLoop(s, decls, i + 1, lifetime, hasExplicitLifetime, isConst,
                [results |-> Append(acc.results, variable),
                 diags |-> acc.diags \o declaratorDiags(s, decls[i], i, lifetime,
                                                        hasExplicitLifetime, isConst)])

VariableFromSyntax(s, syn) ==
    LET inProceduralContext == isProceduralContext(s)
        st == parseModifiers(syn.modifiers, 1, ModifierState, inProceduralContext)
        hasExplicitLifetime == st.lifetime # "None"
        lifetime == IF hasExplicitLifetime THEN st.lifetime ELSE getDefaultLifetime(s)
    IN declaratorLoop(s, syn.declarators, 1, lifetime, hasExplicitLifetime, st.isConst,
                      [results |-> <<>>, diags |-> st.diags])

InitDataDecl ==
    /\ scope \in DataScopes
    /\ syntax \in DataDeclarations
    /\ netTypeSym = NoSymbol
    /\ results = <<>>
    /\ implicitNets = <<>>
    /\ diags = <<>>
    /\ calls = <<>>
    /\ pc = "call"

VariableSymbol_fromSyntax ==
    /\ pc = "call"
    /\ syntax.kind = "DataDeclaration"
    /\ LET out == VariableFromSyntax(scope, syntax)
       IN /\ results' = out.results
          /\ diags' = out.diags
    /\ pc' = "done"
    /\ UNCHANGED <<scope, syntax, netTypeSym, calls, implicitNets>>

NextDataDecl == VariableSymbol_fromSyntax

SpecDataDecl == InitDataDecl /\ [][NextDataDecl]_vars

\* Facts about the declaration in the current state.
DoneData == pc = "done" /\ syntax.kind = "DataDeclaration"

HasModifier(kind) == \E i \in 1..Len(syntax.modifiers) : syntax.modifiers[i] = kind

ModifiersOf(kind) == {i \in 1..Len(syntax.modifiers) : syntax.modifiers[i] = kind}

AllLifetime(l) == \A i \in 1..Len(results) : results[i].lifetime = l

IsLifetimeKeyword(k) == k \in {"StaticKeyword", "AutomaticKeyword"}

\* The last lifetime keyword written is `automatic`.
LastLifetimeIsAutomatic ==
    \E i \in ModifiersOf("AutomaticKeyword") :
        \A j \in (i + 1)..Len(syntax.modifiers) : ~IsLifetimeKeyword(syntax.modifiers[j])

\* ------------------------------------------------------------------------
\* Claims about VariableSymbol::fromSyntax (SpecDataDecl)
\* ------------------------------------------------------------------------
NoLifetimeKeyword == \A i \in 1..Len(syntax.modifiers) : ~IsLifetimeKeyword(syntax.modifiers[i])

ResultsMatchDeclarators ==
    /\ Len(results) = Len(syntax.declarators)
    /\ \A i \in 1..Len(results) :
          /\ results[i].kind = "Variable"
          /\ results[i].name = syntax.declarators[i].name

\* C1 as stated: with an `automatic` modifier, a scope that is not a
\* procedural context gets AutomaticNotAllowed and only static variables; a
\* procedural context gets no such diagnostic and only automatic variables.
C1_AsStated ==
    (DoneData /\ HasModifier("AutomaticKeyword")) =>
        IF ~scope.proceduralContext
        THEN DiagsWith("AutomaticNotAllowed") # {} /\ AllLifetime("Static")
        ELSE DiagsWith("AutomaticNotAllowed") = {} /\ AllLifetime("Automatic")

\* C1 amended: outside a procedural context every `automatic` modifier is
\* reported once with AutomaticNotAllowed and every variable of the
\* declaration is static; in a procedural context nothing is reported and
\* the variables are automatic when `automatic` is the last lifetime keyword
\* of the modifier list, and static when a `static` keyword follows it.
C1_AutomaticOnlyInProcedural ==
    (DoneData /\ HasModifier("AutomaticKeyword")) =>
        /\ ResultsMatchDeclarators
        /\ IF ~scope.proceduralContext
           THEN /\ \A i \in ModifiersOf("AutomaticKeyword") :
                      Cardinality(DiagsAt("AutomaticNotAllowed", i)) = 1
                /\ Cardinality(DiagsWith("AutomaticNotAllowed"))
                      = Cardinality(ModifiersOf("AutomaticKeyword"))
                /\ AllLifetime("Static")
           ELSE /\ DiagsWith("AutomaticNotAllowed") = {}
                /\ IF LastLifetimeIsAutomatic
                   THEN AllLifetime("Automatic")
                   ELSE AllLifetime("Static")

C1_Witness ==
    /\ DoneData
    /\ syntax.modifiers = <<"AutomaticKeyword">>
    /\ ~scope.proceduralContext
    /\ Len(results) = 2
    /\ AllLifetime("Static")
    /\ diags = <<Diag("AutomaticNotAllowed", 1)>>

\* C2 as stated: without a lifetime keyword the variables get the declared
\* default of a statement block or subroutine, and static in every other
\* kind of scope.
C2_AsStated ==
    (DoneData /\ NoLifetimeKeyword) =>
        AllLifetime(IF scope.kind \in {"StatementBlock", "Subroutine"}
                    THEN scope.defaultLifetime ELSE "Static")

\* C2 amended: without a lifetime keyword the variables get the declared
\* default of a statement block or subroutine, automatic in a method
\* prototype, and static in every other kind of scope.
C2_DefaultLifetime ==
    (DoneData /\ NoLifetimeKeyword) =>
        /\ ResultsMatchDeclarators
        /\ AllLifetime(IF scope.kind \in {"StatementBlock", "Subroutine"}
                       THEN scope.defaultLifetime
                       ELSE IF scope.kind = "MethodPrototype" THEN "Automatic"
                       ELSE "Static")

C2_Witness ==
    /\ DoneData
    /\ NoLifetimeKeyword
    /\ scope.kind = "StatementBlock"
    /\ scope.defaultLifetime = "Automatic"
    /\ Len(results) = 2
    /\ AllLifetime("Automatic")

\* C3: declarator i gets StaticInitializerMustBeExplicit (once) exactly when
\* the scope is a procedural context, the declarator has an initializer, its
\* variable is static and no lifetime keyword was written; its variable is
\* created whether or not the diagnostic is reported.
C3_StaticInitializerMustBeExplicit ==
    DoneData =>
        /\ ResultsMatchDeclarators
        /\ \A i \in 1..Len(syntax.declarators) :
              LET required == /\ scope.proceduralContext
                              /\ syntax.declarators[i].initializer
                              /\ results[i].lifetime = "Static"
                              /\ NoLifetimeKeyword
              IN Cardinality(DiagsAt("StaticInitializerMustBeExplicit", i))
                    = IF required THEN 1 ELSE 0
        /\ \A d \in DiagsWith("StaticInitializerMustBeExplicit") :
              diags[d].at \in 1..Len(syntax.declarators)

C3_Witness ==
    /\ DoneData
    /\ scope.proceduralContext
    /\ NoLifetimeKeyword
    /\ Len(results) = 2
    /\ syntax.declarators[1].initializer
    /\ ~syntax.declarators[2].initializer
    /\ DiagsWith("StaticInitializerMustBeExplicit") = {1}
    /\ diags[1].at = 1

\* C4: in a `const` declaration declarator i gets ConstVarNoInitializer
\* (once) exactly when it has no initializer, and its variable is created,
\* appended at position i and carries the Const flag; in a declaration
\* without `const` no variable carries the flag and the diagnostic is never
\* reported.
C4_ConstNeedsInitializer ==
    DoneData =>
        /\ ResultsMatchDeclarators
        /\ \A i \in 1..Len(syntax.declarators) :
              IF HasModifier("ConstKeyword")
              THEN /\ "Const" \in results[i].flags
                   /\ Cardinality(DiagsAt("ConstVarNoInitializer", i))
                         = IF syntax.declarators[i].initializer THEN 0 ELSE 1
              ELSE /\ "Const" \notin results[i].flags
                   /\ DiagsWith("ConstVarNoInitializer") = {}
        /\ \A d \in DiagsWith("ConstVarNoInitializer") :
              diags[d].at \in 1..Len(syntax.declarators)

C4_Witness ==
    /\ DoneData
    /\ HasModifier("ConstKeyword")
    /\ Len(results) = 2
    /\ ~syntax.declarators[1].initializer
    /\ syntax.declarators[2].initializer
    /\ "Const" \in results[1].flags
    /\ DiagsWith("ConstVarNoInitializer") # {}
    /\ \A d \in DiagsWith("ConstVarNoInitializer") : diags[d].at = 1

\* ------------------------------------------------------------------------
\* Net types and NetSymbol
\* ------------------------------------------------------------------------
\* A NetType symbol. declaredType is the nettype's own DeclaredType cell
\* (named by its owner); typeSyntax is the data type written in the nettype
\* declaration and aliasTarget the nettype that type names, if it names one.
NetType(name, netKind, typeSyntax, aliasTarget) ==
    [kind |-> "NetType", name |-> name, netKind |-> netKind,
     declaredType |-> [owner |-> name],
     typeSyntax |-> typeSyntax, aliasTarget |-> aliasTarget]

\* The built-in net types the compilation hands out by token kind;
\* TokenKind::Unknown is the error nettype (`default_nettype none`).
BuiltInNetTypes ==
    {NetType("wire", "Wire", "logic", "none"),
     NetType("tri", "Tri", "logic", "none"),
     NetType("interconnect", "Interconnect", "untyped", "none"),
     NetType("<error>", "Unknown", "error", "none")}

\* package p; nettype logic[3:0] foo; endpackage
\* nettype foo bar; typedef logic[10:0] stuff; nettype stuff baz;
UserNetTypes ==
    {NetType("foo", "UserDefined", "logic[3:0]", "none"),
     NetType("bar", "UserDefined", "foo", "foo"),
     NetType("baz", "UserDefined", "logic[10:0]", "none")}

AllNetTypes == BuiltInNetTypes \cup UserNetTypes

NetTypeNamed(name) == CHOOSE nt \in AllNetTypes : nt.name = name

getNetType(tokenKind) == CHOOSE nt \in BuiltInNetTypes : nt.netKind = tokenKind

isError(netType) == netType.netKind = "Unknown"

\* The type a nettype's DeclaredType resolves to: the type written in its
\* declaration, or the aliased nettype's type when that names a nettype.
RECURSIVE getDataType(_)
getDataType(netType) ==
    IF netType.aliasTarget # "none"
    THEN getDataType(NetTypeNamed(netType.aliasTarget))
    ELSE netType.typeSyntax

NetSymbol_NoLink(name, netType) ==
    [kind |-> "Net", name |-> name, netType |-> netType,
     declaredType |->
        [flags |-> {"NetType"} \cup
                   (IF netType.netKind = "Interconnect" THEN {"InterconnectNet"} ELSE {}),
         link |-> [owner |-> "none"],
         type |-> "none"],
     isImplicit |-> FALSE, initializer |-> "none", syntax |-> <<>>,
     parent |-> "null", checked |-> FALSE]

\* NetSymbol::NetSymbol. parent is the parent scope (null until the symbol
\* is added to one); checked records that checkInitializer has run on it.
NetSymbol(name, netType) ==
    [kind |-> "Net", name |-> name, netType |-> netType,
     declaredType |->
        [flags |-> {"NetType"} \cup
                   (IF netType.netKind = "Interconnect" THEN {"InterconnectNet"} ELSE {}),
         link |-> netType.declaredType,
         type |-> "none"],
     isImplicit |-> FALSE, initializer |-> "none", syntax |-> <<>>,
     parent |-> "null", checked |-> FALSE]

\* ValueSymbol::getType through the DeclaredType: a type set with setType,
\* else the type of the DeclaredType it is linked to.
getType(symbol) ==
    IF symbol.declaredType.type # "none" THEN symbol.declaredType.type
    ELSE IF symbol.declaredType.link.owner = "none" THEN "unresolved"
    ELSE getDataType(NetTypeNamed(symbol.declaredType.link.owner))

\* NetSymbol::createImplicit; ins is the IdentifierNameSyntax (its name and
\* where it stands: assignment index and position on the left-hand side).
createImplicit(ins, netType) ==
    [NetSymbol(ins.name, netType) EXCEPT
        !.declaredType.type = "logic",
        !.isImplicit = TRUE,
        !.syntax = ins.at]

\* ------------------------------------------------------------------------
\* ContinuousAssignSymbol::fromSyntax
\* ------------------------------------------------------------------------
\* The identifiers of a left-hand side, left to right: bare names
\* (IdentifierNameSyntax) and names inside another kind of name syntax.
LhsIdentifiers == [name : Names, bare : {TRUE}] \cup [name : {"a"}, bare : {FALSE}]

NonEmptySeqsUpTo(S, n) == SeqsUpTo(S, n) \ {<<>>}

\* An element of syntax.assignments: an assignment expression with its
\* left-hand side, or (in an ill-formed program) another expression.
AssignExpressions ==
    [kind : {"AssignmentExpression"}, left : NonEmptySeqsUpTo(LhsIdentifiers, MaxLhs)]
    \cup [kind : {"IdentifierName"}, left : {<<[name |-> "a", bare |-> TRUE]>>}]

ContinuousAssigns ==
    [kind : {"ContinuousAssign"},
     assignments : SeqsUpTo(AssignExpressions, MaxAssignments)]

\* A module body with its default nettype and the names already declared.
AssignScopes ==
    [kind : {"InstanceBody"},
     defaultNetType : {getNetType("Wire"), getNetType("Unknown")},
     declared : {{}, {"a"}}]

\* Expression::findPotentiallyImplicitNets: the bare identifiers of the
\* left-hand side that lookup in the scope does not resolve, in order.
RECURSIVE findPotentiallyImplicitNets(_, _, _, _)
findPotentiallyImplicitNets(left, s, i, j) ==
    IF j > Len(left) THEN <<>>
    ELSE (IF left[j].bare /\ left[j].name \notin s.declared
          THEN <<[name |-> left[j].name, at |-> <<i, j>>]>> ELSE <<>>)
         \o findPotentiallyImplicitNets(left, s, i, j + 1)

RECURSIVE createImplicitNets(_, _, _)
createImplicitNets(implicitNetNames, netType, k) ==
    IF k > Len(implicitNetNames) THEN <<>>
    ELSE <<createImplicit(implicitNetNames[k], netType)>>
         \o createImplicitNets(implicitNetNames, netType, k + 1)

\* ContinuousAssignSymbol::ContinuousAssignSymbol(const ExpressionSyntax&)
ContinuousAssignSymbol(i, expr) ==
    [kind |-> "ContinuousAssign", name |-> "", syntax |-> i, assign |-> "null"]

assignmentNets_IgnoreNetType(s, i, expr, netType) ==
    IF expr.kind = "AssignmentExpression"
    THEN createImplicitNets(findPotentiallyImplicitNets(expr.left, s, i, 1), netType, 1)
    ELSE <<>>

\* Body of the loop over syntax.assignments: the implicit nets of element i.
assignmentNets(s, i, expr, netType) ==
    IF ~isError(netType) /\ expr.kind = "AssignmentExpression"
    THEN createImplicitNets(findPotentiallyImplicitNets(expr.left, s, i, 1), netType, 1)
    ELSE <<>>

assignmentSymbols_OnlyWellFormed(i, expr) ==
    IF expr.kind = "AssignmentExpression"
    THEN <<ContinuousAssignSymbol(i, expr)>> ELSE <<>>

\* Body of the loop over syntax.assignments: the symbol of element i.
assignmentSymbols(i, expr) == <<ContinuousAssignSymbol(i, expr)>>

RECURSIVE assignmentLoop(_, _, _, _, _)
assignmentLoop(s, exprs, i, netType, acc) ==
    IF i > Len(exprs) THEN acc
    ELSE assignmentLoop(s, exprs, i + 1, netType,
            [results |-> acc.results \o assignmentSymbols(i, exprs[i]),
             implicitNets |-> acc.implicitNets \o assignmentNets(s, i, exprs[i], netType)])

ContinuousAssignFromSyntax(s, syn) ==
    assignmentLoop(s, syn.assignments, 1, s.defaultNetType,
                   [results |-> <<>>, implicitNets |-> <<>>])

InitContAssign ==
    /\ scope \in AssignScopes
    /\ syntax \in ContinuousAssigns
    /\ netTypeSym = NoSymbol
    /\ results = <<>>
    /\ implicitNets = <<>>
    /\ diags = <<>>
    /\ calls = <<>>
    /\ pc = "call"

ContinuousAssignSymbol_fromSyntax ==
    /\ pc = "call"
    /\ syntax.kind = "ContinuousAssign"
    /\ LET out == ContinuousAssignFromSyntax(scope, syntax)
       IN /\ results' = out.results
          /\ implicitNets' = out.implicitNets
    /\ pc' = "done"
    /\ UNCHANGED <<scope, syntax, netTypeSym, calls, diags>>

NextContAssign == ContinuousAssignSymbol_fromSyntax

SpecContAssign == InitContAssign /\ [][NextContAssign]_vars

\* ------------------------------------------------------------------------
\* Claims about ContinuousAssignSymbol::fromSyntax (SpecContAssign)
\* ------------------------------------------------------------------------
DoneAssign == pc = "done" /\ syntax.kind = "ContinuousAssign"

\* The places <<i, j>> of the bare identifiers on the left-hand sides of the
\* well-formed assignments that the scope does not already declare.
UnresolvedBareIdentifiers ==
    UNION {{<<i, j>> : j \in {n \in 1..Len(syntax.assignments[i].left) :
                                /\ syntax.assignments[i].left[n].bare
                                /\ syntax.assignments[i].left[n].name \notin scope.declared}} :
           i \in {m \in 1..Len(syntax.assignments) :
                    syntax.assignments[m].kind = "AssignmentExpression"}}

\* C5: with the default nettype `none` (the error nettype) no implicit net
\* is created for any assignment list; otherwise every unresolved bare
\* identifier of a left-hand side yields exactly one implicit net, with its
\* name, of type logic, marked implicit and of the default nettype, and no
\* other implicit net is created.
C5_ImplicitNets ==
    DoneAssign =>
        IF scope.defaultNetType.netKind = "Unknown"
        THEN implicitNets = <<>>
        ELSE /\ \A at \in UnresolvedBareIdentifiers :
                   Cardinality({k \in 1..Len(implicitNets) : implicitNets[k].syntax = at}) = 1
             /\ \A k \in 1..Len(implicitNets) :
                   LET net == implicitNets[k]
                   IN /\ net.syntax \in UnresolvedBareIdentifiers
                      /\ net.kind = "Net"
                      /\ net.name = syntax.assignments[net.syntax[1]].left[net.syntax[2]].name
                      /\ getType(net) = "logic"
                      /\ net.isImplicit
                      /\ net.netType = scope.defaultNetType

C5_Witness ==
    /\ DoneAssign
    /\ scope.defaultNetType.netKind = "Wire"
    /\ scope.declared = {"a"}
    /\ Len(syntax.assignments) = 2
    /\ syntax.assignments[1].kind = "AssignmentExpression"
    /\ syntax.assignments[1].left = <<[name |-> "a", bare |-> TRUE], [name |-> "b", bare |-> TRUE]>>
    /\ Len(implicitNets) >= 1
    /\ implicitNets[1].name = "b"
    /\ implicitNets[1].isImplicit

\* C6: a list of N assignments yields exactly N continuous-assign symbols,
\* the i-th made from the i-th element, whatever the default nettype and
\* whether or not the element is an assignment expression, and no
\* diagnostic; when every bare left-hand-side identifier is already declared
\* (as in `wire foo; assign foo = 1, foo = 'z;`) no net is created.
C6_OneSymbolPerAssignment ==
    DoneAssign =>
        /\ Len(results) = Len(syntax.assignments)
        /\ \A i \in 1..Len(results) :
              results[i].kind = "ContinuousAssign" /\ results[i].syntax = i
        /\ diags = <<>>
        /\ (UnresolvedBareIdentifiers = {} => implicitNets = <<>>)

C6_Witness ==
    /\ DoneAssign
    /\ scope.defaultNetType.netKind = "Wire"
    /\ scope.declared = {"a"}
    /\ syntax.assignments = <<[kind |-> "AssignmentExpression",
                               left |-> <<[name |-> "a", bare |-> TRUE]>>],
                              [kind |-> "AssignmentExpression",
                               left |-> <<[name |-> "a", bare |-> TRUE]>>]>>
    /\ Len(results) = 2
    /\ implicitNets = <<>>
    /\ diags = <<>>

\* ------------------------------------------------------------------------
\* NetSymbol::fromSyntax(UserDefinedNetDeclarationSyntax) and
\* NetSymbol::checkInitializer
\* ------------------------------------------------------------------------
\* A net declarator: its name and its initializer, which is absent, binds
\* to a valid expression, or binds to a bad expression (Expression::bad()).
NetDeclarators == [name : Names, initializer : {"none", "ok", "bad"}]

\* `foo #1 a, b = 1;`: the delay (named by its source range) and the
\* declarators. The node always carries the delay the function reads.
UserDefinedNetDeclarations ==
    [kind : {"UserDefinedNetDeclaration"},
     delay : {1, 2},
     declarators : SeqsUpTo(NetDeclarators, MaxDeclarators)]

NetScopes ==
    {ScopeSymbol(k, "None", FALSE, "None") : k \in {"Package", "CompilationUnit"}}
    \cup {ScopeSymbol("InstanceBody", "None", FALSE, "Module")}

\* What the caller's lookup of the type name can hand in: nothing, a
\* nettype, or a symbol of another kind.
NetTypeSyms ==
    {NoSymbol} \cup UserNetTypes
    \cup {[kind |-> "Variable", name |-> "v"], [kind |-> "TypeAlias", name |-> "stuff"]}

delayDiags_Never(sym, syn) == <<>>

\* The first if of the function: a symbol that is not a nettype.
delayDiags(sym, syn) ==
    IF sym.kind # "null" /\ sym.kind # "NetType"
    THEN <<Diag("VarDeclWithDelay", syn.delay)>>
    ELSE <<>>

dropNonNetType(sym) ==
    IF sym.kind # "null" /\ sym.kind # "NetType" THEN NoSymbol ELSE sym

\* The choice of netType from the (possibly dropped) symbol.
selectNetType(sym) ==
    IF sym.kind = "null" THEN getNetType("Unknown") ELSE sym

\* ValueSymbol::setFromDeclarator: the declarator's initializer.
setFromDeclarator(symbol, declarator) ==
    [symbol EXCEPT !.initializer = declarator.initializer]

\* The loop over syntax.declarators.
userNets(declarators, netType) ==
    [i \in 1..Len(declarators) |->
        setFromDeclarator(NetSymbol(declarators[i].name, netType), declarators[i])]

NetFromSyntax(s, syn, sym) ==
    [results |-> userNets(syn.declarators, selectNetType(dropNonNetType(sym))),
     diags |-> delayDiags(sym, syn)]

checkInitializer_AnyExpression(net, i) ==
    IF net.initializer # "none" /\ net.parent # "null" /\ net.parent = "Package"
    THEN <<Diag("PackageNetInit", i)>>
    ELSE <<>>

\* NetSymbol::checkInitializer on results[i]: init, parent, parent's kind,
\* !init->bad().
checkInitializer(net, i) ==
    IF net.initializer # "none" /\ net.parent # "null" /\ net.parent = "Package"
       /\ net.initializer # "bad"
    THEN <<Diag("PackageNetInit", i)>>
    ELSE <<>>

InitUserNet ==
    /\ scope \in NetScopes
    /\ syntax \in UserDefinedNetDeclarations
    /\ netTypeSym \in NetTypeSyms
    /\ results = <<>>
    /\ implicitNets = <<>>
    /\ diags = <<>>
    /\ calls = <<>>
    /\ pc = "call"

NetSymbol_fromSyntax ==
    /\ pc = "call"
    /\ syntax.kind = "UserDefinedNetDeclaration"
    /\ LET out == NetFromSyntax(scope, syntax, netTypeSym)
       IN /\ results' = out.results
          /\ diags' = out.diags
    /\ pc' = "done"
    /\ UNCHANGED <<scope, syntax, netTypeSym, calls, implicitNets>>

\* Scope::addMember for the next created net, in source order: the scope
\* becomes its parent. A symbol is added before it is checked.
Scope_addMember ==
    /\ pc = "done"
    /\ syntax.kind = "UserDefinedNetDeclaration"
    /\ \E i \in 1..Len(results) :
          /\ results[i].parent = "null"
          /\ ~results[i].checked
          /\ \A j \in 1..(i - 1) : results[j].parent # "null"
          /\ results' = [results EXCEPT ![i].parent = scope.kind]
    /\ UNCHANGED <<scope, syntax, netTypeSym, calls, implicitNets, diags, pc>>

NetSymbol_checkInitializer ==
    /\ pc = "done"
    /\ syntax.kind = "UserDefinedNetDeclaration"
    /\ \E i \in 1..Len(results) :
          /\ ~results[i].checked
          /\ diags' = diags \o checkInitializer(results[i], i)
          /\ results' = [results EXCEPT ![i].checked = TRUE]
    /\ UNCHANGED <<scope, syntax, netTypeSym, calls, implicitNets, pc>>

NextUserNet ==
    \/ NetSymbol_fromSyntax
    \/ Scope_addMember
    \/ NetSymbol_checkInitializer

SpecUserNet == InitUserNet /\ [][NextUserNet]_vars

\* ------------------------------------------------------------------------
\* Claims about user-defined nets (SpecUserNet)
\* ------------------------------------------------------------------------
DoneNet == pc = "done" /\ syntax.kind = "UserDefinedNetDeclaration"

\* C7 as stated: every declaration of nets of a user-defined nettype that
\* carries a delay has the delay rejected with a diagnostic.
C7_AsStated ==
    (DoneNet /\ netTypeSym.kind = "NetType" /\ Len(results) >= 1) =>
        DiagsAt("VarDeclWithDelay", syntax.delay) # {}

\* C7 amended: the function takes the resolved symbol from its caller and
\* rejects the delay, with exactly one VarDeclWithDelay on the delay, exactly
\* when that symbol exists and is not a nettype; the delay of a declaration
\* whose symbol is a nettype, or was not found, is not reported.
C7_DelayRejectedForNonNetType ==
    DoneNet =>
        /\ Cardinality(DiagsWith("VarDeclWithDelay"))
              = IF netTypeSym.kind \notin {"null", "NetType"} THEN 1 ELSE 0
        /\ \A d \in DiagsWith("VarDeclWithDelay") : diags[d].at = syntax.delay

C7_Witness ==
    /\ DoneNet
    /\ netTypeSym.kind = "Variable"
    /\ Len(results) = 1
    /\ diags = <<Diag("VarDeclWithDelay", syntax.delay)>>

\* The types the tests expect of nets of the user-defined nettypes.
ExpectedDataType(netTypeName) ==
    CASE netTypeName = "foo" -> "logic[3:0]"
      [] netTypeName = "bar" -> "logic[3:0]"
      [] netTypeName = "baz" -> "logic[10:0]"
      [] OTHER -> "error"

\* C8: every net of the declaration keeps the nettype it was declared with
\* (the error nettype when the symbol is absent or not a nettype), its
\* DeclaredType is linked to that nettype's DeclaredType and not set
\* directly, and its type is the nettype's declared type, an alias (bar of
\* foo) giving the aliased nettype's type.
C8_UserDefinedNetType ==
    DoneNet =>
        /\ Len(results) = Len(syntax.declarators)
        /\ \A i \in 1..Len(results) :
              LET net == results[i]
              IN /\ net.kind = "Net"
                 /\ net.name = syntax.declarators[i].name
                 /\ IF netTypeSym.kind = "NetType"
                    THEN net.netType = netTypeSym /\ net.netType.name = netTypeSym.name
                    ELSE net.netType.netKind = "Unknown"
                 /\ net.declaredType.link = net.netType.declaredType
                 /\ net.declaredType.type = "none"
                 /\ "NetType" \in net.declaredType.flags
                 /\ getType(net) = ExpectedDataType(IF netTypeSym.kind = "NetType"
                                                    THEN netTypeSym.name ELSE "<error>")

C8_Witness ==
    /\ DoneNet
    /\ netTypeSym.kind = "NetType"
    /\ netTypeSym.name = "bar"
    /\ Len(results) = 2
    /\ results[1].netType.name = "bar"
    /\ results[1].netType.aliasTarget = "foo"
    /\ getType(results[1]) = "logic[3:0]"

\* C9 as stated: a checked net has PackageNetInit exactly when it has an
\* initializer and its parent scope is a package.
C9_AsStated ==
    DoneNet =>
        \A i \in 1..Len(results) :
            results[i].checked =>
                (DiagsAt("PackageNetInit", i) # {}
                    <=> (results[i].initializer # "none" /\ results[i].parent = "Package"))

\* C9 amended: checkInitializer reports PackageNetInit (once) for every net
\* whose initializer is present and not a bad expression and whose parent
\* scope is a package, and reports nothing for a net without an initializer,
\* with a bad initializer, without a parent scope, or whose parent scope is
\* not a package.
C9_PackageNetInit ==
    DoneNet =>
        \A i \in 1..Len(results) :
            /\ results[i].checked =>
                  Cardinality(DiagsAt("PackageNetInit", i))
                     = IF /\ results[i].initializer = "ok"
                          /\ results[i].parent = "Package"
                       THEN 1 ELSE 0
            /\ ~results[i].checked => DiagsAt("PackageNetInit", i) = {}

C9_Witness ==
    /\ DoneNet
    /\ Len(results) = 2
    /\ results[1].checked /\ results[2].checked
    /\ results[1].parent = "Package" /\ results[2].parent = "Package"
    /\ results[1].initializer = "ok"
    /\ results[2].initializer = "none"
    /\ DiagsWith("PackageNetInit") # {}
    /\ \A d \in DiagsWith("PackageNetInit") : diags[d].at = 1

\* ------------------------------------------------------------------------
\* ClockingBlockSymbol::fromSyntax
\* ------------------------------------------------------------------------
\* An item of the clocking declaration: a default-skew item whose direction
\* has an input skew, an output skew, both or neither, or another item.
ClockingItems ==
    [kind : {"DefaultSkewItem"}, inputSkew : BOOLEAN, outputSkew : BOOLEAN]
    \cup [kind : {"ClockingItem"}, inputSkew : {FALSE}, outputSkew : {FALSE}]

ClockingDeclarations ==
    [kind : {"ClockingDeclaration"},
     globalOrDefault : {"Unknown", "DefaultKeyword", "GlobalKeyword"},
     items : SeqsUpTo(ClockingItems, MaxItems)]

ClockingScopes ==
    {ScopeSymbol(k, "None", FALSE, "None") : k \in {"InstanceBody", "GenerateBlock"}}

\* The new ClockingBlockSymbol after noteDefaultClocking/noteGlobalClocking:
\* noted is what the compilation registered it as. A skew syntax is named by
\* the index of its item, 0 is the null pointer.
ClockingBlockSymbol(syn) ==
    [kind |-> "ClockingBlock",
     noted |-> CASE syn.globalOrDefault = "DefaultKeyword" -> "default"
                 [] syn.globalOrDefault = "GlobalKeyword" -> "global"
                 [] OTHER -> "none",
     inputSkewSyntax |-> 0,
     outputSkewSyntax |-> 0,
     members |-> <<>>]

globalClockingDiags(s, syn) ==
    IF syn.globalOrDefault = "GlobalKeyword" /\ s.kind = "GenerateBlock"
    THEN <<Diag("GlobalClockingGenerate", 0)>>
    ELSE <<>>

\* The locals of the loop over syntax.items.
ClockingState(s, syn) ==
    [inputSkew |-> 0, outputSkew |-> 0, members |-> <<>>,
     diags |-> globalClockingDiags(s, syn)]

clockingItemStep_LastWins(st, i, item) ==
    IF item.kind = "DefaultSkewItem"
    THEN [st EXCEPT
            !.inputSkew = IF item.inputSkew THEN i ELSE @,
            !.outputSkew = IF item.outputSkew THEN i ELSE @,
            !.diags = @ \o (IF item.inputSkew /\ st.inputSkew # 0
                            THEN <<Diag("MultipleDefaultInputSkew", i),
                                   Diag("NotePreviousDefinition", st.inputSkew)>>
                            ELSE <<>>)
                        \o (IF item.outputSkew /\ st.outputSkew # 0
                            THEN <<Diag("MultipleDefaultOutputSkew", i),
                                   Diag("NotePreviousDefinition", st.outputSkew)>>
                            ELSE <<>>)]
    ELSE [st EXCEPT !.members = Append(@, i)]

\* One iteration of the loop, for item i.
clockingItemStep(st, i, item) ==
    IF item.kind = "DefaultSkewItem"
    THEN [st EXCEPT
            !.inputSkew = IF item.inputSkew /\ st.inputSkew = 0 THEN i ELSE @,
            !.outputSkew = IF item.outputSkew /\ st.outputSkew = 0 THEN i ELSE @,
            !.diags = @ \o (IF item.inputSkew /\ st.inputSkew # 0
                            THEN <<Diag("MultipleDefaultInputSkew", i),
                                   Diag("NotePreviousDefinition", st.inputSkew)>>
                            ELSE <<>>)
                        \o (IF item.outputSkew /\ st.outputSkew # 0
                            THEN <<Diag("MultipleDefaultOutputSkew", i),
                                   Diag("NotePreviousDefinition", st.outputSkew)>>
                            ELSE <<>>)]
    ELSE [st EXCEPT !.members = Append(@, i)]

RECURSIVE clockingItemLoop(_, _, _)
clockingItemLoop(items, i, st) ==
    IF i > Len(items) THEN st
    ELSE clockingItemLoop(items, i + 1, clockingItemStep(st, i, items[i]))

ClockingBlockFromSyntax(s, syn) ==
    LET st == clockingItemLoop(syn.items, 1, ClockingState(s, syn))
    IN [result |-> [ClockingBlockSymbol(syn) EXCEPT
                        !.members = st.members,
                        !.inputSkewSyntax = st.inputSkew,
                        !.outputSkewSyntax = st.outputSkew],
        diags |-> st.diags]

InitClocking ==
    /\ scope \in ClockingScopes
    /\ syntax \in ClockingDeclarations
    /\ netTypeSym = NoSymbol
    /\ results = <<>>
    /\ implicitNets = <<>>
    /\ diags = <<>>
    /\ calls = <<>>
    /\ pc = "call"

ClockingBlockSymbol_fromSyntax ==
    /\ pc = "call"
    /\ syntax.kind = "ClockingDeclaration"
    /\ LET out == ClockingBlockFromSyntax(scope, syntax)
       IN /\ results' = <<out.result>>
          /\ diags' = out.diags
    /\ pc' = "done"
    /\ UNCHANGED <<scope, syntax, netTypeSym, calls, implicitNets>>

NextClocking == ClockingBlockSymbol_fromSyntax

SpecClocking == InitClocking /\ [][NextClocking]_vars

\* ------------------------------------------------------------------------
\* Claims about ClockingBlockSymbol::fromSyntax (SpecClocking)
\* ------------------------------------------------------------------------
DoneClocking == pc = "done" /\ syntax.kind = "ClockingDeclaration"

DefaultInputSkews ==
    {i \in 1..Len(syntax.items) :
        syntax.items[i].kind = "DefaultSkewItem" /\ syntax.items[i].inputSkew}

DefaultOutputSkews ==
    {i \in 1..Len(syntax.items) :
        syntax.items[i].kind = "DefaultSkewItem" /\ syntax.items[i].outputSkew}

\* The first element of a set of item indices, 0 for the empty set.
First(S) == IF S = {} THEN 0 ELSE CHOOSE i \in S : \A j \in S : i <= j

IsIncreasing(seq) == \A i, j \in 1..Len(seq) : i < j => seq[i] < seq[j]

\* C10: after the scan the stored default input skew is the first default
\* input skew of the items (none when there is none) and likewise the output
\* skew; every later default input skew has exactly one
\* MultipleDefaultInputSkew, every later default output skew exactly one
\* MultipleDefaultOutputSkew, neither is reported anywhere else, and the
\* members are exactly the items that are not default-skew items, in order.
C10_DefaultSkewsAndMembers ==
    DoneClocking =>
        LET block == results[1]
        IN /\ Len(results) = 1
           /\ block.inputSkewSyntax = First(DefaultInputSkews)
           /\ block.outputSkewSyntax = First(DefaultOutputSkews)
           /\ \A i \in 1..Len(syntax.items) :
                 /\ Cardinality(DiagsAt("MultipleDefaultInputSkew", i))
                       = IF i \in DefaultInputSkews /\ i # First(DefaultInputSkews)
                         THEN 1 ELSE 0
                 /\ Cardinality(DiagsAt("MultipleDefaultOutputSkew", i))
                       = IF i \in DefaultOutputSkews /\ i # First(DefaultOutputSkews)
                         THEN 1 ELSE 0
           /\ Cardinality(DiagsWith("MultipleDefaultInputSkew"))
                 = Cardinality(DefaultInputSkews \ {First(DefaultInputSkews)})
           /\ Cardinality(DiagsWith("MultipleDefaultOutputSkew"))
                 = Cardinality(DefaultOutputSkews \ {First(DefaultOutputSkews)})
           /\ IsIncreasing(block.members)
           /\ {block.members[k] : k \in 1..Len(block.members)}
                 = {i \in 1..Len(syntax.items) : syntax.items[i].kind # "DefaultSkewItem"}

C10_Witness ==
    /\ DoneClocking
    /\ Len(syntax.items) = 3
    /\ syntax.items[1] = [kind |-> "DefaultSkewItem", inputSkew |-> TRUE, outputSkew |-> FALSE]
    /\ syntax.items[2] = [kind |-> "DefaultSkewItem", inputSkew |-> TRUE, outputSkew |-> TRUE]
    /\ syntax.items[3].kind = "ClockingItem"
    /\ results[1].inputSkewSyntax = 1
    /\ results[1].outputSkewSyntax = 2
    /\ results[1].members = <<3>>
    /\ DiagsAt("MultipleDefaultInputSkew", 2) # {}
    /\ DiagsWith("MultipleDefaultOutputSkew") = {}

\* ------------------------------------------------------------------------
\* ClockVarSymbol::fromSyntax
\* ------------------------------------------------------------------------
\* syntax.direction: the input token (`input`, `inout` or absent), the
\* output token (present or not) and whether each has a skew.
ClockingDirections ==
    {[input |-> "InOutKeyword", inputSkew |-> FALSE, output |-> FALSE, outputSkew |-> FALSE]}
    \cup {d \in [input : {"InputKeyword"}, inputSkew : BOOLEAN,
                 output : BOOLEAN, outputSkew : BOOLEAN] : d.outputSkew => d.output}
    \cup [input : {"Unknown"}, inputSkew : {FALSE}, output : {TRUE}, outputSkew : BOOLEAN]

\* decl->value->expr as Expression::bind returns it: its type and whether it
\* is an assignable expression; NoValue when the declaration has no value.
NoValue == [type |-> "none", lvalue |-> FALSE]

ClockVarValues ==
    {NoValue,
     [type |-> "int", lvalue |-> TRUE],
     [type |-> "logic", lvalue |-> FALSE],
     [type |-> "error", lvalue |-> FALSE]}

ClockVarDecls == [name : Names, value : ClockVarValues]

ClockingItemSyntaxes ==
    [kind : {"ClockingItem"},
     direction : ClockingDirections,
     decls : SeqsUpTo(ClockVarDecls, MaxDeclarators)]

\* The clocking block with what its parent scope declares before the block:
\* for each name the symbol found, "null" when none is; "ConstVariable" is a
\* variable declared const.
ClockingBlockScopes ==
    [kind : {"ClockingBlock"},
     parentMembers : [Names -> {"null", "Net", "Variable", "ConstVariable", "Parameter"}]]

\* Lookup::unqualifiedAt(*parent, name, LookupLocation::before(block))
unqualifiedAt(s, name) ==
    IF s.parentMembers[name] = "null" THEN NoSymbol
    ELSE IF s.parentMembers[name] = "ConstVariable"
    THEN [kind |-> "Variable", name |-> name, flags |-> {"Const"},
          declaredType |-> [owner |-> name]]
    ELSE [kind |-> s.parentMembers[name], name |-> name, flags |-> {},
          declaredType |-> [owner |-> name]]

\* The direction computed from syntax.direction.
clockVarDirection(direction) ==
    IF direction.input = "InOutKeyword" THEN "InOut"
    ELSE IF direction.output
         THEN (IF direction.input # "Unknown" THEN "InOut" ELSE "Out")
         ELSE "In"

\* The skews bound from syntax.direction (ClockingSkew::fromSyntax), "none"
\* for a default-constructed ClockingSkew.
clockVarInputSkew(direction) ==
    IF direction.input = "InputKeyword" /\ direction.inputSkew THEN "skew" ELSE "none"

clockVarOutputSkew(direction) ==
    IF direction.input # "InOutKeyword" /\ direction.output /\ direction.outputSkew
    THEN "skew" ELSE "none"

\* ClockVarSymbol::ClockVarSymbol
ClockVarSymbol(name, dir, inputSkew, outputSkew) ==
    [kind |-> "ClockVar", name |-> name, lifetime |-> "Static",
     direction |-> dir, inputSkew |-> inputSkew, outputSkew |-> outputSkew,
     declaredType |-> [type |-> "none", link |-> [owner |-> "none"]],
     initializer |-> NoValue]

Call(op, decl, target, flags) ==
    [op |-> op, decl |-> decl, target |-> target, flags |-> flags]

\* The symbol the name lookup leaves after the InvalidClockingSignal test.
clockVarSignal(sym) ==
    IF sym.kind # "null" /\ sym.kind # "Net" /\ sym.kind # "Variable"
    THEN NoSymbol ELSE sym

clockVarDiags(sym, i) ==
    IF sym.kind # "null" /\ sym.kind # "Net" /\ sym.kind # "Variable"
    THEN <<Diag("InvalidClockingSignal", i), Diag("NoteDeclarationHere", i)>>
    ELSE <<>>

clockVarType_KeepUnset(arg, decl, sym) ==
    IF decl.value # NoValue
    THEN [arg EXCEPT !.declaredType.type = decl.value.type, !.initializer = decl.value]
    ELSE IF clockVarSignal(sym).kind # "null"
    THEN [arg EXCEPT !.declaredType.link = sym.declaredType]
    ELSE arg

\* The type source of the new variable: setType from the bound value,
\* setLink to the signal's DeclaredType, or the error type.
clockVarType(arg, decl, sym) ==
    IF decl.value # NoValue
    THEN [arg EXCEPT !.declaredType.type = decl.value.type, !.initializer = decl.value]
    ELSE IF clockVarSignal(sym).kind # "null"
    THEN [arg EXCEPT !.declaredType.link = sym.declaredType]
    ELSE [arg EXCEPT !.declaredType.type = "error"]

\* The calls of one loop iteration that depend on the direction:
\* expr.requireLValue on the bound value, context.addDriver on the signal.
clockVarCalls(decl, i, sym, dir) ==
    IF decl.value # NoValue
    THEN (IF dir # "In" THEN <<Call("requireLValue", i, "value", {"ClockVar"})>> ELSE <<>>)
    ELSE IF clockVarSignal(sym).kind # "null"
    THEN (IF dir # "In" THEN <<Call("addDriver", i, sym.name, {"ClockVar"})>> ELSE <<>>)
    ELSE <<>>

RECURSIVE clockVarLoop(_, _, _, _, _)
clockVarLoop(s, syn, i, dir, acc) ==
    IF i > Len(syn.decls) THEN acc
    ELSE LET decl == syn.decls[i]
             arg == ClockVarSymbol(decl.name, dir, clockVarInputSkew(syn.direction),
                                   clockVarOutputSkew(syn.direction))
             sym == IF decl.value # NoValue THEN NoSymbol ELSE unqualifiedAt(s, decl.name)
         IN clockVarLoop(s, syn, i + 1, dir,
                [results |-> Append(acc.results, clockVarType(arg, decl, sym)),
                 diags |-> acc.diags \o clockVarDiags(sym, i),
                 calls |-> acc.calls \o clockVarCalls(decl, i, sym, dir)])

ClockVarFromSyntax(s, syn) ==
    clockVarLoop(s, syn, 1, clockVarDirection(syn.direction),
                 [results |-> <<>>, diags |-> <<>>, calls |-> <<>>])

InitClockVar ==
    /\ scope \in ClockingBlockScopes
    /\ syntax \in ClockingItemSyntaxes
    /\ netTypeSym = NoSymbol
    /\ results = <<>>
    /\ implicitNets = <<>>
    /\ diags = <<>>
    /\ calls = <<>>
    /\ pc = "call"

ClockVarSymbol_fromSyntax ==
    /\ pc = "call"
    /\ syntax.kind = "ClockingItem"
    /\ LET out == ClockVarFromSyntax(scope, syntax)
       IN /\ results' = out.results
          /\ diags' = out.diags
          /\ calls' = out.calls
    /\ pc' = "done"
    /\ UNCHANGED <<scope, syntax, netTypeSym, implicitNets>>

NextClockVar == ClockVarSymbol_fromSyntax

SpecClockVar == InitClockVar /\ [][NextClockVar]_vars

\* ------------------------------------------------------------------------
\* Claims about ClockVarSymbol::fromSyntax (SpecClockVar)
\* ------------------------------------------------------------------------
DoneClockVar == pc = "done" /\ syntax.kind = "ClockingItem"

CallsOf(op, i) == {c \in 1..Len(calls) : calls[c].op = op /\ calls[c].decl = i}

\* The signal declaration i names in the parent scope, when it has no value
\* and the name is a net or a variable there.
NamesSignal(i) ==
    /\ syntax.decls[i].value = NoValue
    /\ unqualifiedAt(scope, syntax.decls[i].name).kind \in {"Net", "Variable"}

HasValue(i) == syntax.decls[i].value # NoValue

\* C11: a variable of direction out or inout has its referenced expression
\* required to be an lvalue and registered as a driver, with a value as well
\* as with a signal named in the parent scope; direction in triggers
\* neither. (requireLValue with the ClockVar flag is counted as registering
\* the driver of the value it is given.)
C11_AsStated ==
    DoneClockVar =>
        \A i \in 1..Len(results) :
            IF results[i].direction \in {"Out", "InOut"}
            THEN (HasValue(i) \/ NamesSignal(i)) =>
                    /\ CallsOf("requireLValue", i) # {}
                    /\ CallsOf("requireLValue", i) \cup CallsOf("addDriver", i) # {}
            ELSE CallsOf("requireLValue", i) = {} /\ CallsOf("addDriver", i) = {}

\* C12: every created variable has exactly one type source: with a value,
\* the type of the bound value (which is also its initializer); without one,
\* a link to the DeclaredType of the net or variable the parent scope
\* declares under its name; otherwise the error type, with
\* InvalidClockingSignal exactly when the name was found as another kind of
\* symbol.
C12_ClockVarTypeSource ==
    DoneClockVar =>
        /\ Len(results) = Len(syntax.decls)
        /\ \A i \in 1..Len(results) :
              LET arg == results[i]
                  found == unqualifiedAt(scope, syntax.decls[i].name).kind
              IN /\ arg.kind = "ClockVar"
                 /\ arg.name = syntax.decls[i].name
                 /\ IF HasValue(i)
                    THEN /\ arg.declaredType.type = syntax.decls[i].value.type
                         /\ arg.declaredType.link.owner = "none"
                         /\ arg.initializer = syntax.decls[i].value
                    ELSE IF found \in {"Net", "Variable"}
                    THEN /\ arg.declaredType.type = "none"
                         /\ arg.declaredType.link = [owner |-> syntax.decls[i].name]
                    ELSE /\ arg.declaredType.type = "error"
                         /\ arg.declaredType.link.owner = "none"
                 /\ Cardinality(DiagsAt("InvalidClockingSignal", i))
                       = IF ~HasValue(i) /\ found \notin {"null", "Net", "Variable"}
                         THEN 1 ELSE 0

C12_Witness ==
    /\ DoneClockVar
    /\ Len(results) = 2
    /\ ~HasValue(1) /\ ~HasValue(2)
    /\ syntax.decls[1].name = "a" /\ syntax.decls[2].name = "b"
    /\ scope.parentMembers["a"] = "ConstVariable"
    /\ scope.parentMembers["b"] = "Parameter"
    /\ results[1].declaredType.link = [owner |-> "a"]
    /\ results[2].declaredType.type = "error"
    /\ DiagsAt("InvalidClockingSignal", 2) # {}

\* ------------------------------------------------------------------------
\* ModportPortSymbol::fromSyntax (named and explicit ports)
\* ------------------------------------------------------------------------
ArgumentDirections == {"In", "Out", "InOut", "Ref"}

\* The expression of an explicit port as Expression::bind returns it: bad or
\* not, its type, and whether it can connect to a non-const ref argument.
BoundExpressions ==
    {[bad |-> TRUE, type |-> "error", refArg |-> FALSE],
     [bad |-> FALSE, type |-> "logic", refArg |-> TRUE],
     [bad |-> FALSE, type |-> "int", refArg |-> FALSE]}

NoExpression == [bad |-> FALSE, type |-> "none", refArg |-> FALSE]

\* The direction argument is carried with the syntax node it is applied to.
ModportNamedPorts ==
    [kind : {"ModportNamedPort"}, direction : ArgumentDirections, name : Names]

ModportExplicitPorts ==
    [kind : {"ModportExplicitPort"}, direction : ArgumentDirections, name : Names,
     expr : BoundExpressions \cup {NoExpression}]

\* context.scope: the interface body, with what it declares under each name
\* and what the scope around it declares.
ModportScopes ==
    [kind : {"InstanceBody"},
     members : [Names -> {"null", "Net", "Variable", "Subroutine", "Parameter"}],
     parentMembers : [Names -> {"null", "Variable"}]]

\* Lookup::unqualifiedAt with its flags: the scope's own members first, the
\* parent scope's only without LookupFlags::NoParentScope.
unqualifiedAtFlags(s, name, flags) ==
    IF s.members[name] # "null"
    THEN [kind |-> s.members[name], name |-> name, declaredType |-> [owner |-> name]]
    ELSE IF "NoParentScope" \notin flags /\ s.parentMembers[name] # "null"
    THEN [kind |-> s.parentMembers[name], name |-> name,
          declaredType |-> [owner |-> "parent"]]
    ELSE NoSymbol

\* SemanticFacts::isAllowedInModport
isAllowedInModport(kind) == kind \in {"Net", "Variable", "Subroutine"}

\* ValueExpressionBase::fromSymbol: the value expression naming a symbol.
fromSymbol(sym) ==
    [bad |-> FALSE, type |-> "logic", refArg |-> sym.kind = "Variable"]

\* Expression::canConnectToRefArg(isConstRef = false)
canConnectToRefArg(expr) == expr.refArg

\* ModportPortSymbol::ModportPortSymbol
ModportPortSymbol(name, direction) ==
    [kind |-> "ModportPort", name |-> name, direction |-> direction,
     internalSymbol |-> NoSymbol, explicitConnection |-> NoExpression,
     declaredType |-> [type |-> "none", link |-> [owner |-> "none"]]]

modportLookup_WithParents(ctx, name) == unqualifiedAtFlags(ctx, name, {})

\* The lookup of a named port's internal symbol.
modportLookup(ctx, name) == unqualifiedAtFlags(ctx, name, {"NoParentScope"})

\* The diagnostics of the test on the looked up symbol.
internalSymbolDiags(sym) ==
    IF sym.kind = "null" THEN <<>>
    ELSE IF sym.kind = "Subroutine"
    THEN <<Diag("ExpectedImportExport", 1), Diag("NoteDeclarationHere", 1)>>
    ELSE IF ~isAllowedInModport(sym.kind)
    THEN <<Diag("NotAllowedInModport", 1), Diag("NoteDeclarationHere", 1)>>
    ELSE <<>>

\* result->internalSymbol after that test.
internalSymbolKept(sym) ==
    IF sym.kind = "null" THEN NoSymbol
    ELSE IF sym.kind = "Subroutine" THEN NoSymbol
    ELSE IF ~isAllowedInModport(sym.kind) THEN NoSymbol
    ELSE sym

directionCheck_DriverForOut(direction, expr) ==
    CASE direction = "In" -> [calls |-> <<>>, diags |-> <<>>]
      [] direction = "Out" ->
            [calls |-> <<Call("requireLValue", 1, "expr", {})>>, diags |-> <<>>]
      [] direction = "InOut" ->
            [calls |-> <<Call("requireLValue", 1, "expr", {"NotADriver", "InOutPort"})>>,
             diags |-> <<>>]
      [] direction = "Ref" ->
            [calls |-> <<>>,
             diags |-> IF ~canConnectToRefArg(expr)
                       THEN <<Diag("InvalidRefArg", 1)>> ELSE <<>>]

\* switch (direction): the check made on the connected expression.
directionCheck(direction, expr) ==
    CASE direction = "In" -> [calls |-> <<>>, diags |-> <<>>]
      [] direction = "Out" ->
            [calls |-> <<Call("requireLValue", 1, "expr", {"NotADriver"})>>,
             diags |-> <<>>]
      [] direction = "InOut" ->
            [calls |-> <<Call("requireLValue", 1, "expr", {"NotADriver", "InOutPort"})>>,
             diags |-> <<>>]
      [] direction = "Ref" ->
            [calls |-> <<>>,
             diags |-> IF ~canConnectToRefArg(expr)
                       THEN <<Diag("InvalidRefArg", 1)>> ELSE <<>>]

ModportNamedFromSyntax(ctx, direction, syn) ==
    LET result == ModportPortSymbol(syn.name, direction)
        found == modportLookup(ctx, syn.name)
        sym == internalSymbolKept(found)
        check == directionCheck(direction, fromSymbol(sym))
    IN IF sym.kind = "null"
       THEN [result |-> [result EXCEPT !.declaredType.type = "error"],
             diags |-> internalSymbolDiags(found), calls |-> <<>>]
       ELSE [result |-> [result EXCEPT !.internalSymbol = sym,
                                       !.declaredType.link = sym.declaredType],
             diags |-> internalSymbolDiags(found) \o check.diags,
             calls |-> check.calls]

ModportExplicitFromSyntax(ctx, direction, syn) ==
    LET result == ModportPortSymbol(syn.name, direction)
        check == directionCheck(direction, syn.expr)
    IN IF syn.expr = NoExpression
       THEN [result |-> [result EXCEPT !.declaredType.type = "void"],
             diags |-> <<>>, calls |-> <<>>]
       ELSE IF syn.expr.bad
       THEN [result |-> [result EXCEPT !.explicitConnection = syn.expr,
                                       !.declaredType.type = "error"],
             diags |-> <<>>, calls |-> <<>>]
       ELSE [result |-> [result EXCEPT !.explicitConnection = syn.expr,
                                       !.declaredType.type = syn.expr.type],
             diags |-> check.diags, calls |-> check.calls]

InitModportPort ==
    /\ scope \in ModportScopes
    /\ syntax \in ModportNamedPorts \cup ModportExplicitPorts
    /\ netTypeSym = NoSymbol
    /\ results = <<>>
    /\ implicitNets = <<>>
    /\ diags = <<>>
    /\ calls = <<>>
    /\ pc = "call"

ModportPortSymbol_fromSyntax_Named ==
    /\ pc = "call"
    /\ syntax.kind = "ModportNamedPort"
    /\ LET out == ModportNamedFromSyntax(scope, syntax.direction, syntax)
       IN /\ results' = <<out.result>>
          /\ diags' = out.diags
          /\ calls' = out.calls
    /\ pc' = "done"
    /\ UNCHANGED <<scope, syntax, netTypeSym, implicitNets>>

ModportPortSymbol_fromSyntax_Explicit ==
    /\ pc = "call"
    /\ syntax.kind = "ModportExplicitPort"
    /\ LET out == ModportExplicitFromSyntax(scope, syntax.direction, syntax)
       IN /\ results' = <<out.result>>
          /\ diags' = out.diags
          /\ calls' = out.calls
    /\ pc' = "done"
    /\ UNCHANGED <<scope, syntax, netTypeSym, implicitNets>>

NextModportPort ==
    \/ ModportPortSymbol_fromSyntax_Named
    \/ ModportPortSymbol_fromSyntax_Explicit

SpecModportPort == InitModportPort /\ [][NextModportPort]_vars

\* ------------------------------------------------------------------------
\* Claims about ModportPortSymbol::fromSyntax (SpecModportPort)
\* ------------------------------------------------------------------------
DoneNamedPort == pc = "done" /\ syntax.kind = "ModportNamedPort"

DoneExplicitPort == pc = "done" /\ syntax.kind = "ModportExplicitPort"

\* The expression the direction is applied to, when the port has one.
ConnectedExpression ==
    IF syntax.kind = "ModportNamedPort"
    THEN fromSymbol(results[1].internalSymbol)
    ELSE results[1].explicitConnection

IsConnected ==
    IF syntax.kind = "ModportNamedPort"
    THEN results[1].internalSymbol.kind # "null"
    ELSE results[1].explicitConnection # NoExpression /\ ~results[1].explicitConnection.bad

\* C13: a named port's name is looked up among the interface's own members
\* only; a subroutine (ExpectedImportExport) or a symbol not allowed in a
\* modport (NotAllowedInModport) still gives a port, with no internal symbol
\* and the error type; a name that is not found gives a port with the error
\* type and no diagnostic; otherwise the port's declared type is linked to
\* the internal symbol's declared type.
C13_NamedPortLookup ==
    DoneNamedPort =>
        LET own == scope.members[syntax.name]
            port == results[1]
        IN /\ Len(results) = 1
           /\ port.kind = "ModportPort"
           /\ port.name = syntax.name
           /\ port.direction = syntax.direction
           /\ Cardinality(DiagsWith("ExpectedImportExport"))
                 = IF own = "Subroutine" THEN 1 ELSE 0
           /\ Cardinality(DiagsWith("NotAllowedInModport"))
                 = IF own \notin {"null", "Net", "Variable", "Subroutine"} THEN 1 ELSE 0
           /\ IF own \in {"Net", "Variable"}
              THEN /\ port.internalSymbol.kind = own
                   /\ port.internalSymbol.name = syntax.name
                   /\ port.declaredType.link = [owner |-> syntax.name]
                   /\ port.declaredType.type = "none"
              ELSE /\ port.internalSymbol = NoSymbol
                   /\ port.declaredType.type = "error"
                   /\ port.declaredType.link.owner = "none"

C13_Witness ==
    /\ DoneNamedPort
    /\ scope.members[syntax.name] = "null"
    /\ scope.parentMembers[syntax.name] = "Variable"
    /\ results[1].internalSymbol = NoSymbol
    /\ results[1].declaredType.type = "error"
    /\ diags = <<>>

\* C14: in both forms the direction alone decides the check on the
\* connected expression: In makes none; Out and InOut pass it once to
\* requireLValue with NotADriver (InOut with InOutPort as well); Ref makes no
\* lvalue requirement and reports InvalidRefArg exactly when the expression
\* cannot connect to a non-const ref argument. A port without a connected
\* expression is not checked.
C14_DirectionDecidesCheck ==
    pc = "done" /\ syntax.kind \in {"ModportNamedPort", "ModportExplicitPort"} =>
        LET dir == syntax.direction
            lvalueCalls == {c \in 1..Len(calls) : calls[c].op = "requireLValue"}
        IN /\ \A c \in 1..Len(calls) : calls[c].op = "requireLValue"
           /\ \A c \in lvalueCalls : "NotADriver" \in calls[c].flags
           /\ IF ~IsConnected
              THEN calls = <<>> /\ DiagsWith("InvalidRefArg") = {}
              ELSE /\ Cardinality(lvalueCalls) = IF dir \in {"Out", "InOut"} THEN 1 ELSE 0
                   /\ dir = "Out" => calls[1].flags = {"NotADriver"}
                   /\ dir = "InOut" => calls[1].flags = {"NotADriver", "InOutPort"}
                   /\ Cardinality(DiagsWith("InvalidRefArg"))
                         = IF dir = "Ref" /\ ~canConnectToRefArg(ConnectedExpression)
                           THEN 1 ELSE 0

C14_Witness ==
    /\ DoneExplicitPort
    /\ syntax.direction = "InOut"
    /\ IsConnected
    /\ calls = <<Call("requireLValue", 1, "expr", {"NotADriver", "InOutPort"})>>

\* ------------------------------------------------------------------------
\* ElabSystemTaskSymbol::getMessage, ElabSystemTaskSymbol::issueDiagnostic
\* ------------------------------------------------------------------------
ElabSystemTaskKinds == {"Fatal", "Error", "Warning", "Info", "StaticAssert"}

\* An argument of the task with what binding it gives: whether it is a
\* simple expression, bad, of which type, whether it evaluates to a constant
\* and to which, and the text it formats to when it can be formatted.
OrderedArgument(type, evaluable, value, formattable, text) ==
    [kind |-> "OrderedArgument", simple |-> TRUE, bad |-> FALSE, type |-> type,
     evaluable |-> evaluable, value |-> value,
     formattable |-> formattable, text |-> text]

ElabArguments ==
    {OrderedArgument("int", TRUE, 0, TRUE, "0"),
     OrderedArgument("int", TRUE, 1, TRUE, "1"),
     OrderedArgument("int", TRUE, 3, TRUE, "3"),
     OrderedArgument("string", TRUE, 1, TRUE, "msg"),
     OrderedArgument("string", TRUE, 0, TRUE, ""),
     OrderedArgument("int", FALSE, 0, FALSE, ""),
     OrderedArgument("unpacked", TRUE, 1, FALSE, ""),
     [OrderedArgument("error", FALSE, 0, FALSE, "") EXCEPT !.bad = TRUE],
     [OrderedArgument("error", FALSE, 0, FALSE, "") EXCEPT !.simple = FALSE],
     [OrderedArgument("error", FALSE, 0, FALSE, "") EXCEPT !.kind = "NamedArgument"],
     [OrderedArgument("void", FALSE, 0, TRUE, " ") EXCEPT !.kind = "EmptyArgument"]}

\* ElabSystemTaskSyntax: the task's name and its argument list, if any.
ElabSystemTasks ==
    [kind : {"ElabSystemTask"}, name : ElabSystemTaskKinds,
     hasArguments : {TRUE}, parameters : SeqsUpTo(ElabArguments, MaxArgs)]
    \cup [kind : {"ElabSystemTask"}, name : ElabSystemTaskKinds,
          hasArguments : {FALSE}, parameters : {<<>>}]

ElabScopes == [kind : {"InstanceBody"}]

\* The location of the task itself; an argument is located by its position.
TaskLocation == 0

NoMessage == [has |-> FALSE, text |-> <<>>]

Message(text) == [has |-> TRUE, text |-> text]

NoCondition == [kind |-> "null"]

\* ElabSystemTaskSymbol::ElabSystemTaskSymbol, ElabSystemTaskSymbol::fromSyntax
ElabSystemTaskSymbol(taskKind) ==
    [kind |-> "ElabSystemTask", taskKind |-> taskKind, location |-> TaskLocation,
     message |-> NoMessage, assertCondition |-> NoCondition]

\* FmtHelpers::checkFinishNum
checkFinishNum(arg) ==
    arg.kind = "OrderedArgument" /\ arg.type = "int" /\ arg.evaluable /\ arg.value \in {0, 1, 2}

\* ASTContext::requireBooleanConvertible
requireBooleanConvertible(arg) == arg.type \in {"int", "string"}

\* ASTContext::eval: the constant the expression evaluates to, also stored
\* in the expression; bad when it is not a constant.
eval(arg) == [bad |-> ~arg.evaluable, isTrue |-> arg.evaluable /\ arg.value # 0]

\* FmtHelpers::checkDisplayArgs
checkDisplayArgs(args) == \A i \in 1..Len(args) : args[i].formattable

\* FmtHelpers::formatDisplay: the texts of the arguments, one after another.
RECURSIVE formatDisplay(_)
formatDisplay(args) ==
    IF args = <<>> THEN <<>>
    ELSE (IF Head(args).text = "" THEN <<>> ELSE <<Head(args).text>>)
         \o formatDisplay(Tail(args))

\* ElabSystemTaskSymbol::createMessage: the text as a sequence of pieces,
\* <<>> for the empty string.
createMessage(args) ==
    IF ~checkDisplayArgs(args) THEN <<>>
    ELSE IF formatDisplay(args) = <<>> THEN <<>>
    ELSE <<": ">> \o formatDisplay(args)

\* The loop that binds the arguments: the bound arguments when all bind,
\* and the diagnostics added on the way.
RECURSIVE bindArguments(_, _, _)
bindArguments(parameters, i, acc) ==
    IF i > Len(parameters) THEN acc
    ELSE LET arg == parameters[i]
         IN CASE arg.kind = "NamedArgument" ->
                    [ok |-> FALSE, args |-> acc.args,
                     diags |-> Append(acc.diags, Diag("NamedArgNotAllowed", i))]
              [] arg.kind = "OrderedArgument" /\ ~arg.simple ->
                    [ok |-> FALSE, args |-> acc.args, diags |-> acc.diags]
              [] arg.kind = "OrderedArgument" /\ arg.simple /\ arg.bad ->
                    [ok |-> FALSE, args |-> Append(acc.args, arg), diags |-> acc.diags]
              [] OTHER ->
                    bindArguments(parameters, i + 1,
                                  [acc EXCEPT !.args = Append(acc.args, arg)])

firstArgument_KeepFinishNum(taskKind, args) ==
    IF args = <<>> THEN [ok |-> TRUE, condition |-> NoCondition, rest |-> args]
    ELSE CASE taskKind = "Fatal" ->
                 [ok |-> checkFinishNum(args[1]), condition |-> NoCondition,
                  rest |-> args]
           [] taskKind = "StaticAssert" ->
                 [ok |-> requireBooleanConvertible(args[1]) /\ ~eval(args[1]).bad,
                  condition |-> args[1], rest |-> Tail(args)]
           [] OTHER -> [ok |-> TRUE, condition |-> NoCondition, rest |-> args]

\* What the task kind makes of the first bound argument: whether its check
\* passes, the assert condition, and the arguments left to format.
firstArgument(taskKind, args) ==
    IF args = <<>> THEN [ok |-> TRUE, condition |-> NoCondition, rest |-> args]
    ELSE CASE taskKind = "Fatal" ->
                 [ok |-> checkFinishNum(args[1]), condition |-> NoCondition,
                  rest |-> Tail(args)]
           [] taskKind = "StaticAssert" ->
                 [ok |-> requireBooleanConvertible(args[1]) /\ ~eval(args[1]).bad,
                  condition |-> args[1], rest |-> Tail(args)]
           [] OTHER -> [ok |-> TRUE, condition |-> NoCondition, rest |-> args]

\* ElabSystemTaskSymbol::getMessage: the symbol with its message (and assert
\* condition) stored, and the diagnostics added.
getMessage(sym, syn) ==
    IF sym.message.has THEN [sym |-> sym, diags |-> <<>>]
    ELSE IF ~syn.hasArguments
    THEN [sym |-> [sym EXCEPT !.message = Message(<<>>)], diags |-> <<>>]
    ELSE LET bound == bindArguments(syn.parameters, 1,
                                    [ok |-> TRUE, args |-> <<>>, diags |-> <<>>])
             first == firstArgument(sym.taskKind, bound.args)
         IN IF ~bound.ok
            THEN [sym |-> [sym EXCEPT !.message = Message(<<>>)], diags |-> bound.diags]
            ELSE IF ~first.ok
            THEN [sym |-> [sym EXCEPT !.message = Message(<<>>)], diags |-> bound.diags]
            ELSE [sym |-> [sym EXCEPT !.message = Message(createMessage(first.rest)),
                                      !.assertCondition = first.condition],
                  diags |-> bound.diags]

reportStaticAssert_SilentWithoutCondition(loc, message, condition) ==
    IF condition.kind = "null" THEN <<>>
    ELSE IF eval(condition).isTrue THEN <<>>
    ELSE <<Diag("StaticAssert", loc)>>

\* ElabSystemTaskSymbol::reportStaticAssert
reportStaticAssert(loc, message, condition) ==
    IF condition.kind # "null" /\ ~eval(condition).bad /\ eval(condition).isTrue
    THEN <<>>
    ELSE <<Diag("StaticAssert", loc)>>

taskDiagCode_AlwaysError(taskKind) ==
    CASE taskKind = "Fatal" -> "ErrorTask"
      [] taskKind = "Error" -> "ErrorTask"
      [] taskKind = "Warning" -> "ErrorTask"
      [] taskKind = "Info" -> "ErrorTask"

\* switch (taskKind) of issueDiagnostic
taskDiagCode(taskKind) ==
    CASE taskKind = "Fatal" -> "FatalTask"
      [] taskKind = "Error" -> "ErrorTask"
      [] taskKind = "Warning" -> "WarningTask"
      [] taskKind = "Info" -> "InfoTask"

\* ElabSystemTaskSymbol::issueDiagnostic
issueDiagnostic(sym, syn) ==
    LET got == getMessage(sym, syn)
    IN [sym |-> got.sym,
        diags |-> got.diags \o
                  (IF sym.taskKind = "StaticAssert"
                   THEN reportStaticAssert(sym.location, got.sym.message.text,
                                           got.sym.assertCondition)
                   ELSE <<Diag(taskDiagCode(sym.taskKind), sym.location)>>)]

InitElabTask ==
    /\ scope \in ElabScopes
    /\ syntax \in ElabSystemTasks
    /\ netTypeSym = NoSymbol
    /\ results = <<ElabSystemTaskSymbol(syntax.name)>>
    /\ implicitNets = <<>>
    /\ diags = <<>>
    /\ calls = <<>>
    /\ pc = "call"

ElabSystemTaskSymbol_getMessage ==
    /\ syntax.kind = "ElabSystemTask"
    /\ Len(calls) < MaxTaskCalls
    /\ LET out == getMessage(results[1], syntax)
       IN /\ results' = <<out.sym>>
          /\ diags' = diags \o out.diags
    /\ calls' = Append(calls, Call("getMessage", 1, "task", {}))
    /\ pc' = "done"
    /\ UNCHANGED <<scope, syntax, netTypeSym, implicitNets>>

ElabSystemTaskSymbol_issueDiagnostic ==
    /\ syntax.kind = "ElabSystemTask"
    /\ Len(calls) < MaxTaskCalls
    /\ LET out == issueDiagnostic(results[1], syntax)
       IN /\ results' = <<out.sym>>
          /\ diags' = diags \o out.diags
    /\ calls' = Append(calls, Call("issueDiagnostic", 1, "task", {}))
    /\ pc' = "done"
    /\ UNCHANGED <<scope, syntax, netTypeSym, implicitNets>>

NextElabTask ==
    \/ ElabSystemTaskSymbol_getMessage
    \/ ElabSystemTaskSymbol_issueDiagnostic

SpecElabTask == InitElabTask /\ [][NextElabTask]_vars

\* ------------------------------------------------------------------------
\* Claims about the elaboration system tasks (SpecElabTask)
\* ------------------------------------------------------------------------
IsElabTask == syntax.kind = "ElabSystemTask"

\* The number of issueDiagnostic calls made so far.
Issued == Cardinality({c \in 1..Len(calls) : calls[c].op = "issueDiagnostic"})

TaskDiagCodes == {"FatalTask", "ErrorTask", "WarningTask", "InfoTask", "StaticAssert"}

TaskDiags == {i \in 1..Len(diags) : diags[i].code \in TaskDiagCodes}

\* All the arguments bind: each is an empty argument or a simple ordered
\* argument that is not bad.
AllArgumentsBind ==
    /\ syntax.hasArguments
    /\ \A i \in 1..Len(syntax.parameters) :
          LET arg == syntax.parameters[i]
          IN \/ arg.kind = "EmptyArgument"
             \/ arg.kind = "OrderedArgument" /\ arg.simple /\ ~arg.bad

\* The condition of a $static_assert constant-evaluates to true.
ConditionIsTrue ==
    /\ AllArgumentsBind
    /\ Len(syntax.parameters) >= 1
    /\ syntax.parameters[1].type \in {"int", "string"}
    /\ syntax.parameters[1].evaluable
    /\ syntax.parameters[1].value # 0

C16_OneDiagnosticPerCall ==
    IsElabTask /\ syntax.name # "StaticAssert" =>
        /\ Cardinality(TaskDiags) = Issued
        /\ \A i \in TaskDiags :
              /\ diags[i].at = TaskLocation
              /\ diags[i].code = (CASE syntax.name = "Fatal" -> "FatalTask"
                                    [] syntax.name = "Error" -> "ErrorTask"
                                    [] syntax.name = "Warning" -> "WarningTask"
                                    [] syntax.name = "Info" -> "InfoTask")

C16_Witness ==
    /\ IsElabTask /\ syntax.name = "Warning"
    /\ Issued = 2
    /\ ~AllArgumentsBind
    /\ syntax.hasArguments
    /\ results[1].message = Message(<<>>)
    /\ Cardinality(DiagsWith("WarningTask")) = 2

\* The message formatted from the arguments from position k on.
FormattedFrom(k) ==
    LET rest == SubSeq(syntax.parameters, k, Len(syntax.parameters))
    IN IF \E i \in 1..Len(rest) : ~rest[i].formattable THEN <<>>
       ELSE IF formatDisplay(rest) = <<>> THEN <<>>
       ELSE <<": ">> \o formatDisplay(rest)

\* C17: once the message of a task whose arguments all bind is computed,
\* for $fatal the first argument is the finish number: when it is not 0, 1
\* or 2 the message is empty, otherwise the message is formatted from the
\* arguments after the first; for $error, $warning and $info the message is
\* formatted from all the arguments, the first included.
C17_FatalFinishNumber ==
    IsElabTask /\ results[1].message.has /\ AllArgumentsBind
               /\ Len(syntax.parameters) >= 1 =>
        LET first == syntax.parameters[1]
            finishOk == /\ first.kind = "OrderedArgument" /\ first.type = "int"
                        /\ first.evaluable /\ first.value \in {0, 1, 2}
        IN /\ syntax.name = "Fatal" =>
                results[1].message.text = IF finishOk THEN FormattedFrom(2) ELSE <<>>
           /\ syntax.name \in {"Error", "Warning", "Info"} =>
                results[1].message.text = FormattedFrom(1)

C17_Witness ==
    /\ IsElabTask /\ syntax.name = "Fatal"
    /\ Len(syntax.parameters) = 2
    /\ syntax.parameters[1].text = "1" /\ syntax.parameters[2].text = "msg"
    /\ results[1].message = Message(<<": ", "msg">>)

\* ------------------------------------------------------------------------
\* PrimitiveSymbol::fromSyntax
\* ------------------------------------------------------------------------
UdpNames == {"q", "a"}

\* Source locations: of the primitive's name, of the i-th name of the port
\* list, and of the k-th name of the j-th declaration.
PrimLocation == <<"prim", 0, 0>>

ListLocation(i) == <<"list", i, 0>>

DeclLocation(j, k) == <<"decl", j, k>>

\* UdpOutputPortDeclSyntax: `output q`, `output reg q`, `output reg q = v`
\* and the standalone `reg q` (reg without the output keyword).
UdpOutputPortDecl(name, keyword, reg, initializer) ==
    [kind |-> "UdpOutputPortDecl", name |-> name, keyword |-> keyword,
     reg |-> reg, initializer |-> initializer]

\* The initializer of an output declaration or of the initial statement as
\* Expression::bind returns it.
IntegerLiteral(bitWidth, unsized, value) ==
    [bad |-> FALSE, kind |-> "IntegerLiteral", bitWidth |-> bitWidth,
     unsized |-> unsized, value |-> value]

NoInitializer == [bad |-> FALSE, kind |-> "none", bitWidth |-> 0,
                  unsized |-> FALSE, value |-> "none"]

UdpOutputPortDecls ==
    {UdpOutputPortDecl(n, TRUE, r, NoInitializer) : n \in UdpNames, r \in BOOLEAN}

UdpRegSpecifiers ==
    {UdpOutputPortDecl(n, FALSE, TRUE, NoInitializer) : n \in UdpNames}

UdpInputPortDecls ==
    [kind : {"UdpInputPortDecl"}, names : {<<"q">>, <<"a">>, <<"a", "a">>}]

AnsiUdpPortDecls ==
    UdpOutputPortDecls
    \cup {UdpOutputPortDecl(n, TRUE, TRUE, IntegerLiteral(1, FALSE, "1")) : n \in UdpNames}
    \cup UdpInputPortDecls

BodyPortDecls == UdpOutputPortDecls \cup UdpRegSpecifiers \cup UdpInputPortDecls

NoInitial == [name |-> "", value |-> NoInitializer]

UdpInitialStmts ==
    {NoInitial, [name |-> "q", value |-> IntegerLiteral(1, FALSE, "0")]}

UdpDeclarations ==
    [kind : {"UdpDeclaration"},
     portList : [kind : {"AnsiUdpPortList"},
                 ports : SeqsUpTo(AnsiUdpPortDecls, MaxPorts)],
     portDecls : {<<>>, <<UdpOutputPortDecl("q", TRUE, FALSE, NoInitializer)>>},
     initialStmt : UdpInitialStmts]
    \cup
    [kind : {"UdpDeclaration"},
     portList : [kind : {"NonAnsiUdpPortList"}, ports : SeqsUpTo(UdpNames, MaxPorts)],
     portDecls : SeqsUpTo(BodyPortDecls, MaxPorts),
     initialStmt : {NoInitial}]
    \cup
    [kind : {"UdpDeclaration"},
     portList : [kind : {"NonAnsiUdpPortList"}, ports : {<<"q", "a">>}],
     portDecls : SeqsUpTo(BodyPortDecls, MaxPorts - 1),
     initialStmt : UdpInitialStmts \ {NoInitial}]
    \cup
    [kind : {"UdpDeclaration"},
     portList : [kind : {"WildcardUdpPortList"}, ports : {<<>>}],
     portDecls : {<<>>},
     initialStmt : UdpInitialStmts]

PrimitiveScopes == [kind : {"CompilationUnit"}]

NoSyntax == [kind |-> "none"]

\* PrimitivePortSymbol::PrimitivePortSymbol
PrimitivePortSymbol(name, loc, direction) ==
    [kind |-> "PrimitivePort", name |-> name, location |-> loc,
     direction |-> direction, type |-> "logic", syntax |-> NoSyntax]

\* The ports one declaration of an ANSI port list gives.
ansiDeclPorts(decl, j) ==
    IF decl.kind = "UdpOutputPortDecl"
    THEN <<[PrimitivePortSymbol(decl.name, DeclLocation(j, 1),
                                IF decl.reg THEN "OutReg" ELSE "Out")
            EXCEPT !.syntax = decl]>>
    ELSE [k \in 1..Len(decl.names) |->
            [PrimitivePortSymbol(decl.names[k], DeclLocation(j, k), "In")
             EXCEPT !.syntax = [kind |-> "IdentifierName", name |-> decl.names[k]]]]

RECURSIVE ansiPorts(_, _)
ansiPorts(decls, j) ==
    IF j > Len(decls) THEN <<>>
    ELSE ansiDeclPorts(decls[j], j) \o ansiPorts(decls, j + 1)

\* The ports the names of a non-ANSI port list give.
nonAnsiPorts(names) ==
    [i \in 1..Len(names) |-> PrimitivePortSymbol(names[i], ListLocation(i), "In")]

\* portMap.find: the port a name maps to, 0 when it maps to none. emplace
\* keeps the first port of a name and skips the empty name.
portMapFind(names, name) ==
    IF name = "" \/ \A i \in 1..Len(names) : names[i] # name THEN 0
    ELSE CHOOSE i \in 1..Len(names) :
            names[i] = name /\ \A h \in 1..(i - 1) : names[h] # name

checkDup_Never(port, loc) == <<>>

\* checkDup
checkDup(port, loc) ==
    IF port.syntax # NoSyntax
    THEN <<Diag("PrimitivePortDup", loc), Diag("NotePreviousDefinition", port.location)>>
    ELSE <<>>

NoRegSpecifier == 0

\* One name of a body declaration that is not a standalone reg specifier.
declareName(names, st, name, loc, direction, syn) ==
    LET i == portMapFind(names, name)
    IN IF i = 0
       THEN [st EXCEPT !.diags = st.diags \o <<Diag("PrimitivePortUnknown", loc)>>]
       ELSE [st EXCEPT !.diags = st.diags \o checkDup(st.ports[i], loc),
                       !.ports[i].direction =
                           IF direction = "In" THEN st.ports[i].direction ELSE direction,
                       !.ports[i].location = loc,
                       !.ports[i].syntax = syn]

RECURSIVE declareInputs(_, _, _, _, _)
declareInputs(names, st, decl, j, k) ==
    IF k > Len(decl.names) THEN st
    ELSE declareInputs(names,
             declareName(names, st, decl.names[k], DeclLocation(j, k), "In",
                         [kind |-> "IdentifierName", name |-> decl.names[k]]),
             decl, j, k + 1)

bodyDeclStep_RegAtOnce(names, st, decl, j) ==
    IF decl.kind = "UdpOutputPortDecl"
    THEN IF portMapFind(names, decl.name) # 0 /\ decl.reg /\ ~decl.keyword
         THEN LET i == portMapFind(names, decl.name)
              IN IF st.ports[i].syntax # NoSyntax /\ st.ports[i].direction = "Out"
                 THEN [st EXCEPT !.ports[i].direction = "OutReg"]
                 ELSE st
         ELSE declareName(names, st, decl.name, DeclLocation(j, 1),
                          IF decl.reg THEN "OutReg" ELSE "Out", decl)
    ELSE declareInputs(names, st, decl, j, 1)

\* One iteration of the loop over syntax.body->portDecls.
bodyDeclStep(names, st, decl, j) ==
    IF decl.kind = "UdpOutputPortDecl"
    THEN IF portMapFind(names, decl.name) # 0 /\ decl.reg /\ ~decl.keyword
         THEN [st EXCEPT !.regSpecifier = j,
                         !.diags = st.diags \o
                             (IF st.regSpecifier # NoRegSpecifier
                              THEN <<Diag("PrimitiveRegDup", DeclLocation(j, 1)),
                                     Diag("NotePreviousDefinition",
                                          DeclLocation(st.regSpecifier, 1))>>
                              ELSE <<>>)]
         ELSE declareName(names, st, decl.name, DeclLocation(j, 1),
                          IF decl.reg THEN "OutReg" ELSE "Out", decl)
    ELSE declareInputs(names, st, decl, j, 1)

RECURSIVE bodyDeclLoop(_, _, _, _)
bodyDeclLoop(names, st, decls, j) ==
    IF j > Len(decls) THEN st
    ELSE bodyDeclLoop(names, bodyDeclStep(names, st, decls[j], j), decls, j + 1)

\* if (regSpecifier): the saved standalone reg specifier applied at the end.
applyRegSpecifier(names, st, decls) ==
    IF st.regSpecifier = NoRegSpecifier THEN st
    ELSE LET j == st.regSpecifier
             i == portMapFind(names, decls[j].name)
             port == st.ports[i]
         IN IF port.syntax = NoSyntax THEN st
            ELSE IF port.direction = "OutReg"
            THEN [st EXCEPT !.diags = st.diags \o checkDup(port, DeclLocation(j, 1))]
            ELSE IF port.direction = "In"
            THEN [st EXCEPT !.diags = st.diags \o
                                <<Diag("PrimitiveRegInput", DeclLocation(j, 1))>>]
            ELSE [st EXCEPT !.ports[i].direction = "OutReg"]

\* for (auto port : ports) if (!port->getSyntax()) PrimitivePortMissing
missingDiags(ports) ==
    LET missing == SelectSeq([i \in 1..Len(ports) |-> i],
                             LAMBDA i : ports[i].syntax = NoSyntax)
    IN [m \in 1..Len(missing) |-> Diag("PrimitivePortMissing", ports[missing[m]].location)]

\* The non-ANSI branch: ports and diagnostics.
nonAnsiBranch(syn) ==
    LET names == syn.portList.ports
        st0 == [ports |-> nonAnsiPorts(names), diags |-> <<>>,
                regSpecifier |-> NoRegSpecifier]
        st1 == bodyDeclLoop(names, st0, syn.portDecls, 1)
        st2 == applyRegSpecifier(names, st1, syn.portDecls)
    IN [ports |-> st2.ports, diags |-> st2.diags \o missingDiags(st2.ports)]

\* The ANSI branch: ports and diagnostics.
ansiBranch(syn) ==
    [ports |-> ansiPorts(syn.portList.ports, 1),
     diags |-> IF syn.portDecls # <<>>
               THEN <<Diag("PrimitiveAnsiMix", DeclLocation(1, 0))>> ELSE <<>>]

\* The ports of the primitive by the kind of its port list.
primitivePorts(syn) ==
    CASE syn.portList.kind = "AnsiUdpPortList" -> ansiBranch(syn)
      [] syn.portList.kind = "NonAnsiUdpPortList" -> nonAnsiBranch(syn)
      [] syn.portList.kind = "WildcardUdpPortList" -> [ports |-> <<>>, diags |-> <<>>]

\* The first port after the first that is not an input, 0 when there is none.
firstExtraOutput(ports) ==
    IF \A i \in 2..Len(ports) : ports[i].direction = "In" THEN 0
    ELSE CHOOSE i \in 2..Len(ports) :
            ports[i].direction # "In" /\ \A h \in 2..(i - 1) : ports[h].direction = "In"

portListDiags_EveryExtraOutput(ports) ==
    IF Len(ports) < 2 THEN <<Diag("PrimitiveTwoPorts", PrimLocation)>>
    ELSE IF ports[1].direction = "In"
    THEN <<Diag("PrimitiveOutputFirst", ports[1].location)>>
    ELSE LET extra == SelectSeq([i \in 1..Len(ports) |-> i],
                                LAMBDA i : i >= 2 /\ ports[i].direction # "In")
         IN [m \in 1..Len(extra) |-> Diag("PrimitiveDupOutput", ports[extra[m]].location)]

\* The checks on the number and the order of the ports.
portListDiags(ports) ==
    IF Len(ports) < 2 THEN <<Diag("PrimitiveTwoPorts", PrimLocation)>>
    ELSE IF ports[1].direction = "In"
    THEN <<Diag("PrimitiveOutputFirst", ports[1].location)>>
    ELSE IF firstExtraOutput(ports) # 0
    THEN <<Diag("PrimitiveDupOutput", ports[firstExtraOutput(ports)].location)>>
    ELSE <<>>

primIsSequential_AnyOutput(ports) ==
    Len(ports) >= 2 /\ ports[1].direction # "In"

\* prim->isSequential
primIsSequential(ports) ==
    Len(ports) >= 2 /\ ports[1].direction # "In" /\ ports[1].direction = "OutReg"

\* The initial value given inline by the first port.
inlineInitializer(ports) ==
    IF /\ primIsSequential(ports)
       /\ ports[1].syntax.kind = "UdpOutputPortDecl"
       /\ ports[1].syntax.initializer # NoInitializer
    THEN ports[1].syntax.initializer
    ELSE NoInitializer

\* The initial statement checked: diagnostics and the expression to bind.
initialStmtCheck(ports, initial) ==
    IF initial = NoInitial
    THEN [diags |-> <<>>, initExpr |-> inlineInitializer(ports)]
    ELSE IF ~primIsSequential(ports)
    THEN [diags |-> <<Diag("PrimitiveInitialInComb", <<"initial", 0, 0>>)>>,
          initExpr |-> inlineInitializer(ports)]
    ELSE IF inlineInitializer(ports) # NoInitializer
    THEN [diags |-> <<Diag("PrimitiveDupInitial", <<"initial", 0, 0>>),
                      Diag("NotePreviousDefinition", ports[1].location)>>,
          initExpr |-> inlineInitializer(ports)]
    ELSE [diags |-> IF initial.name # "" /\ ports[1].name # ""
                       /\ initial.name # ports[1].name
                    THEN <<Diag("PrimitiveWrongInitial", <<"initial", 0, 0>>),
                           Diag("NoteDeclarationHere", ports[1].location)>>
                    ELSE <<>>,
          initExpr |-> initial.value]

initValOf_AnyLiteral(expr) ==
    IF /\ expr # NoInitializer /\ ~expr.bad
       /\ expr.kind = "IntegerLiteral"
       /\ (expr.bitWidth = 1 \/ expr.unsized)
    THEN expr.value
    ELSE "none"

\* prim->initVal from the bound initializer, "none" when none is stored.
initValOf(expr) ==
    IF /\ expr # NoInitializer /\ ~expr.bad
       /\ expr.kind = "IntegerLiteral"
       /\ (expr.bitWidth = 1 \/ expr.unsized)
       /\ (expr.value = "0" \/ expr.value = "1" \/ (expr.bitWidth = 1 /\ expr.value = "x"))
    THEN expr.value
    ELSE "none"

initValDiags(expr) ==
    IF expr # NoInitializer /\ ~expr.bad /\ initValOf(expr) = "none"
    THEN <<Diag("PrimitiveInitVal", <<"initial", 0, 0>>)>>
    ELSE <<>>

PrimitiveSymbol(ports, isSequential, initVal) ==
    [kind |-> "Primitive", primitiveKind |-> "UserDefined", location |-> PrimLocation,
     ports |-> ports, isSequential |-> isSequential, initVal |-> initVal]

PrimitiveFromSyntax(syn) ==
    LET built == primitivePorts(syn)
        ports == built.ports
        wellFormed == Len(ports) >= 2 /\ ports[1].direction # "In"
        init == initialStmtCheck(ports, syn.initialStmt)
    IN IF ~wellFormed
       THEN [prim |-> PrimitiveSymbol(ports, primIsSequential(ports), "none"),
             diags |-> built.diags \o portListDiags(ports)]
       ELSE [prim |-> PrimitiveSymbol(ports, primIsSequential(ports),
                                      initValOf(init.initExpr)),
             diags |-> built.diags \o portListDiags(ports) \o init.diags
                       \o initValDiags(init.initExpr)]

InitPrimitive ==
    /\ scope \in PrimitiveScopes
    /\ syntax \in UdpDeclarations
    /\ netTypeSym = NoSymbol
    /\ results = <<>>
    /\ implicitNets = <<>>
    /\ diags = <<>>
    /\ calls = <<>>
    /\ pc = "call"

PrimitiveSymbol_fromSyntax ==
    /\ pc = "call"
    /\ syntax.kind = "UdpDeclaration"
    /\ LET out == PrimitiveFromSyntax(syntax)
       IN /\ results' = <<out.prim>>
          /\ diags' = out.diags
    /\ pc' = "done"
    /\ UNCHANGED <<scope, syntax, netTypeSym, implicitNets, calls>>

NextPrimitive == PrimitiveSymbol_fromSyntax

SpecPrimitive == InitPrimitive /\ [][NextPrimitive]_vars

\* ------------------------------------------------------------------------
\* Claims about PrimitiveSymbol::fromSyntax (SpecPrimitive)
\* ------------------------------------------------------------------------
DonePrimitive == pc = "done" /\ syntax.kind = "UdpDeclaration"

PrimPorts == results[1].ports

PortListCodes == {"PrimitiveTwoPorts", "PrimitiveOutputFirst", "PrimitiveDupOutput"}

PortListDiagnostics == {d \in 1..Len(diags) : diags[d].code \in PortListCodes}

\* At least two ports, the first an output, every other an input.
WellFormedPortList ==
    /\ Len(PrimPorts) >= 2
    /\ PrimPorts[1].direction \in {"Out", "OutReg"}
    /\ \A i \in 2..Len(PrimPorts) : PrimPorts[i].direction = "In"

\* C18: none of PrimitiveTwoPorts, PrimitiveOutputFirst, PrimitiveDupOutput
\* is reported exactly when the resolved port list has at least two ports,
\* an output first and only inputs after it; otherwise exactly one of them
\* is: PrimitiveTwoPorts with fewer than two ports, else PrimitiveOutputFirst
\* with an input first, else one PrimitiveDupOutput, at the first port after
\* the first that is not an input.
C18_PortListDiagnostics ==
    DonePrimitive =>
        /\ Cardinality(PortListDiagnostics) = IF WellFormedPortList THEN 0 ELSE 1
        /\ Len(PrimPorts) < 2 => DiagsAt("PrimitiveTwoPorts", PrimLocation) # {}
        /\ Len(PrimPorts) >= 2 /\ PrimPorts[1].direction = "In" =>
              DiagsAt("PrimitiveOutputFirst", PrimPorts[1].location) # {}
        /\ Len(PrimPorts) >= 2 /\ PrimPorts[1].direction # "In" =>
              \A i \in 2..Len(PrimPorts) :
                  (/\ PrimPorts[i].direction # "In"
                   /\ \A h \in 2..(i - 1) : PrimPorts[h].direction = "In")
                  => DiagsAt("PrimitiveDupOutput", PrimPorts[i].location) # {}

C18_Witness ==
    /\ DonePrimitive
    /\ syntax.portList.kind = "AnsiUdpPortList"
    /\ Len(PrimPorts) = 3
    /\ PrimPorts[1].direction = "Out"
    /\ PrimPorts[2].direction = "OutReg"
    /\ PrimPorts[3].direction = "Out"
    /\ Cardinality(DiagsWith("PrimitiveDupOutput")) = 1
    /\ DiagsAt("PrimitiveDupOutput", PrimPorts[2].location) # {}
    /\ DiagsAt("PrimitiveDupOutput", PrimPorts[3].location) = {}

\* The positions <<j, k>> of the names the body declarations declare.
DeclEntries ==
    {e \in (1..Len(syntax.portDecls)) \X (1..MaxPorts) :
        IF syntax.portDecls[e[1]].kind = "UdpOutputPortDecl" THEN e[2] = 1
        ELSE e[2] <= Len(syntax.portDecls[e[1]].names)}

EntryName(e) ==
    IF syntax.portDecls[e[1]].kind = "UdpOutputPortDecl"
    THEN syntax.portDecls[e[1]].name
    ELSE syntax.portDecls[e[1]].names[e[2]]

InPortList(name) ==
    \E i \in 1..Len(syntax.portList.ports) : syntax.portList.ports[i] = name

\* A standalone reg specifier of a name of the port list.
IsRegSpecifier(e) ==
    /\ syntax.portDecls[e[1]].kind = "UdpOutputPortDecl"
    /\ syntax.portDecls[e[1]].reg /\ ~syntax.portDecls[e[1]].keyword
    /\ InPortList(EntryName(e))

\* The declarations proper: every entry but the standalone reg specifiers.
RegularEntries == {e \in DeclEntries : ~IsRegSpecifier(e)}

Before(e, f) == e[1] < f[1] \/ (e[1] = f[1] /\ e[2] < f[2])

Covered(name) == \E e \in RegularEntries : EntryName(e) = name

IsNonAnsi == syntax.portList.kind = "NonAnsiUdpPortList"

\* The declarations `output reg n` and `output n` of a name.
OutputEntries(name) ==
    {e \in RegularEntries :
        syntax.portDecls[e[1]].kind = "UdpOutputPortDecl" /\ EntryName(e) = name}

\* C19 as stated: the primitive is sequential exactly when its first port
\* ends up with direction OutReg.
C19_AsStated ==
    DonePrimitive =>
        (results[1].isSequential
            <=> (Len(PrimPorts) >= 1 /\ PrimPorts[1].direction = "OutReg"))

\* C19 amended: the primitive is sequential exactly when it has at least
\* two ports and the first ends up with direction OutReg; the first port
\* ends up OutReg from an ANSI `output reg`, from a non-ANSI `output reg`
\* declaration of it, and from a non-ANSI `output` declaration of it with a
\* standalone `reg` specifier of its name.
C19_SequentialIffOutputReg ==
    DonePrimitive =>
        /\ results[1].isSequential
              <=> (Len(PrimPorts) >= 2 /\ PrimPorts[1].direction = "OutReg")
        /\ (/\ syntax.portList.kind = "AnsiUdpPortList"
            /\ Len(syntax.portList.ports) >= 1
            /\ syntax.portList.ports[1].kind = "UdpOutputPortDecl"
            /\ syntax.portList.ports[1].reg)
           => PrimPorts[1].direction = "OutReg"
        /\ (/\ IsNonAnsi
            /\ Len(syntax.portList.ports) >= 1
            /\ Cardinality(OutputEntries(syntax.portList.ports[1])) = 1
            /\ \A e \in OutputEntries(syntax.portList.ports[1]) :
                  syntax.portDecls[e[1]].reg)
           => PrimPorts[1].direction = "OutReg"
        /\ (/\ IsNonAnsi
            /\ Len(syntax.portList.ports) >= 1
            /\ Cardinality(OutputEntries(syntax.portList.ports[1])) = 1
            /\ \E e \in DeclEntries :
                  /\ IsRegSpecifier(e)
                  /\ EntryName(e) = syntax.portList.ports[1]
                  /\ \A f \in DeclEntries : IsRegSpecifier(f) => ~Before(e, f))
           => PrimPorts[1].direction = "OutReg"

C19_Witness ==
    /\ DonePrimitive
    /\ IsNonAnsi
    /\ syntax.portList.ports = <<"q", "a">>
    /\ syntax.portDecls = <<UdpOutputPortDecl("q", TRUE, FALSE, NoInitializer),
                            [kind |-> "UdpInputPortDecl", names |-> <<"a">>],
                            UdpOutputPortDecl("q", FALSE, TRUE, NoInitializer)>>
    /\ PrimPorts[1].direction = "OutReg"
    /\ results[1].isSequential

CoverageCodes == {"PrimitivePortMissing", "PrimitivePortDup", "PrimitivePortUnknown"}

\* The body declarations without the names that are not in the port list.
KnownPortDecls ==
    [j \in 1..Len(syntax.portDecls) |->
        IF syntax.portDecls[j].kind = "UdpOutputPortDecl"
        THEN (IF InPortList(syntax.portDecls[j].name) THEN syntax.portDecls[j]
              ELSE [kind |-> "UdpInputPortDecl", names |-> <<>>])
        ELSE [syntax.portDecls[j] EXCEPT
                 !.names = SelectSeq(syntax.portDecls[j].names, InPortList)]]

\* What a declaration can change of a port.
Declared(ports) ==
    [i \in 1..Len(ports) |->
        [direction |-> ports[i].direction, syntax |-> ports[i].syntax]]

UnknownChangesNoPort ==
    Declared(PrimPorts)
        = Declared(nonAnsiBranch([syntax EXCEPT !.portDecls = KnownPortDecls]).ports)

\* C20 as stated, for a non-ANSI port list: every name of the list that no
\* declaration covers gets exactly one PrimitivePortMissing; every
\* declaration of a name already declared gets PrimitivePortDup; every
\* declaration of a name not in the list gets PrimitivePortUnknown and
\* changes no port; a list covered once, name by name, by matching
\* declarations gets none of the three.
C20_AsStated ==
    DonePrimitive /\ IsNonAnsi =>
        /\ \A i \in 1..Len(syntax.portList.ports) :
              ~Covered(syntax.portList.ports[i])
                  => Cardinality(DiagsAt("PrimitivePortMissing", ListLocation(i))) = 1
        /\ \A e \in RegularEntries :
              (InPortList(EntryName(e))
               /\ \E f \in RegularEntries : Before(f, e) /\ EntryName(f) = EntryName(e))
              => DiagsAt("PrimitivePortDup", DeclLocation(e[1], e[2])) # {}
        /\ \A e \in DeclEntries :
              ~InPortList(EntryName(e))
                  => DiagsAt("PrimitivePortUnknown", DeclLocation(e[1], e[2])) # {}
        /\ UnknownChangesNoPort
        /\ (/\ \A i \in 1..Len(syntax.portList.ports) :
                  Cardinality({e \in RegularEntries :
                                  EntryName(e) = syntax.portList.ports[i]}) = 1
            /\ \A e \in DeclEntries : InPortList(EntryName(e)) /\ ~IsRegSpecifier(e))
           => \A d \in 1..Len(diags) : diags[d].code \notin CoverageCodes

\* The first port of its name in the port list.
FirstOfName(i) ==
    \A h \in 1..(i - 1) : syntax.portList.ports[h] # syntax.portList.ports[i]

\* The last standalone reg specifier: the one applied after the loop.
IsSavedRegSpecifier(e) ==
    IsRegSpecifier(e) /\ \A f \in DeclEntries : IsRegSpecifier(f) => ~Before(e, f)

\* The last output declaration of a name is `output reg`.
DeclaredOutputReg(name) ==
    \E e \in OutputEntries(name) :
        /\ syntax.portDecls[e[1]].reg
        /\ \A f \in OutputEntries(name) : ~Before(e, f)

\* C20 amended, for a non-ANSI port list. Port by port: a port of the list
\* gets exactly one PrimitivePortMissing when no declaration (standalone reg
\* specifiers apart) names it or when an earlier port of the list has the
\* same name, and none otherwise. A declaration of a name of the list that
\* an earlier declaration names gets exactly one PrimitivePortDup; so does
\* the last standalone reg specifier when the last output declaration of
\* its name is `output reg`; no other declaration gets one. A declaration of
\* a name not in the list gets exactly one PrimitivePortUnknown and changes
\* no port, and no other declaration gets one. A port list of distinct
\* names, each declared once, with no other declaration, gets none of the
\* three.
C20_NonAnsiCoverage ==
    DonePrimitive /\ IsNonAnsi =>
        /\ \A i \in 1..Len(syntax.portList.ports) :
              Cardinality(DiagsAt("PrimitivePortMissing", ListLocation(i)))
                  = IF ~Covered(syntax.portList.ports[i]) \/ ~FirstOfName(i)
                    THEN 1 ELSE 0
        /\ \A d \in DiagsWith("PrimitivePortMissing") : diags[d].at[1] = "list"
        /\ \A e \in DeclEntries :
              /\ Cardinality(DiagsAt("PrimitivePortDup", DeclLocation(e[1], e[2])))
                    = IF \/ /\ ~IsRegSpecifier(e)
                            /\ InPortList(EntryName(e))
                            /\ \E f \in RegularEntries :
                                  Before(f, e) /\ EntryName(f) = EntryName(e)
                         \/ /\ IsSavedRegSpecifier(e)
                            /\ DeclaredOutputReg(EntryName(e))
                      THEN 1 ELSE 0
              /\ Cardinality(DiagsAt("PrimitivePortUnknown", DeclLocation(e[1], e[2])))
                    = IF ~InPortList(EntryName(e)) THEN 1 ELSE 0
        /\ \A d \in DiagsWith("PrimitivePortDup") \cup DiagsWith("PrimitivePortUnknown") :
              diags[d].at[1] = "decl" /\ <<diags[d].at[2], diags[d].at[3]>> \in DeclEntries
        /\ UnknownChangesNoPort
        /\ (/\ \A i \in 1..Len(syntax.portList.ports) :
                  /\ FirstOfName(i)
                  /\ Cardinality({e \in RegularEntries :
                                     EntryName(e) = syntax.portList.ports[i]}) = 1
            /\ \A e \in DeclEntries : InPortList(EntryName(e)) /\ ~IsRegSpecifier(e))
           => \A d \in 1..Len(diags) : diags[d].code \notin CoverageCodes

C20_Witness ==
    /\ DonePrimitive
    /\ IsNonAnsi
    /\ syntax.portList.ports = <<"q", "a", "a">>
    /\ syntax.portDecls = <<UdpOutputPortDecl("q", TRUE, FALSE, NoInitializer),
                            [kind |-> "UdpInputPortDecl", names |-> <<"a", "a">>]>>
    /\ Cardinality(DiagsWith("PrimitivePortMissing")) = 1
    /\ DiagsAt("PrimitivePortMissing", ListLocation(3)) # {}
    /\ DiagsAt("PrimitivePortDup", DeclLocation(2, 2)) # {}
    /\ DiagsWith("PrimitivePortUnknown") = {}

\* ------------------------------------------------------------------------
\* PrimitiveSymbol::fromSyntax: the initial statement (SpecPrimitiveInitial)
\* ------------------------------------------------------------------------
\* Initializers as bound: 1'b0, 1'b1, 1'bx, 1'bz, the unsized 1, 2 and 'bx,
\* the two bit wide 2'b01, an expression that is not a literal, and a bad
\* expression.
InitialValues ==
    {IntegerLiteral(1, FALSE, "0"), IntegerLiteral(1, FALSE, "1"),
     IntegerLiteral(1, FALSE, "x"), IntegerLiteral(1, FALSE, "z"),
     IntegerLiteral(32, TRUE, "1"), IntegerLiteral(32, TRUE, "2"),
     IntegerLiteral(32, TRUE, "x"), IntegerLiteral(2, FALSE, "1"),
     [IntegerLiteral(1, FALSE, "0") EXCEPT !.kind = "NamedValue"],
     [IntegerLiteral(1, FALSE, "0") EXCEPT !.bad = TRUE, !.kind = "Invalid"]}

InitialStmts ==
    {NoInitial} \cup [name : UdpNames \cup {""}, value : InitialValues]

\* The output declaration of the ANSI lists: `output q`, `output reg q`,
\* and `output reg q = v` with a good and with a wrong value.
InitialOutputDecls ==
    {UdpOutputPortDecl("q", TRUE, FALSE, NoInitializer),
     UdpOutputPortDecl("q", TRUE, TRUE, NoInitializer),
     UdpOutputPortDecl("q", TRUE, TRUE, IntegerLiteral(1, FALSE, "1")),
     UdpOutputPortDecl("q", TRUE, TRUE, IntegerLiteral(32, TRUE, "2"))}

InitialInputDecls == {[kind |-> "UdpInputPortDecl", names |-> <<"a">>]}

\* ANSI primitives with one output and up to MaxPorts - 1 input
\* declarations, and the non-ANSI `(q, a)` with `input a; output reg q;`.
InitialUdpDeclarations ==
    {[kind |-> "UdpDeclaration",
      portList |-> [kind |-> "AnsiUdpPortList", ports |-> <<out>> \o ins],
      portDecls |-> <<>>,
      initialStmt |-> initial] :
        out \in InitialOutputDecls,
        ins \in SeqsUpTo(InitialInputDecls, MaxPorts - 1),
        initial \in InitialStmts}
    \cup
    {[kind |-> "UdpDeclaration",
      portList |-> [kind |-> "NonAnsiUdpPortList", ports |-> <<"q", "a">>],
      portDecls |-> <<[kind |-> "UdpInputPortDecl", names |-> <<"a">>],
                      UdpOutputPortDecl("q", TRUE, TRUE, NoInitializer)>>,
      initialStmt |-> initial] : initial \in InitialStmts}

InitPrimitiveInitial ==
    /\ scope \in PrimitiveScopes
    /\ syntax \in InitialUdpDeclarations
    /\ netTypeSym = NoSymbol
    /\ results = <<>>
    /\ implicitNets = <<>>
    /\ diags = <<>>
    /\ calls = <<>>
    /\ pc = "call"

SpecPrimitiveInitial == InitPrimitiveInitial /\ [][NextPrimitive]_vars

\* ------------------------------------------------------------------------
\* Claims about the initial statement (SpecPrimitiveInitial)
\* ------------------------------------------------------------------------
HasInitial == syntax.initialStmt # NoInitial

\* An integer literal, 1 bit wide or unsized, of value 0, 1 or 1-bit x.
IsInitialValue(v) ==
    /\ ~v.bad
    /\ v.kind = "IntegerLiteral"
    /\ (v.bitWidth = 1 \/ v.unsized)
    /\ (v.value \in {"0", "1"} \/ (v.value = "x" /\ v.bitWidth = 1))

\* The value the first port's declaration gives inline, if any.
InlineValue ==
    IF PrimPorts[1].syntax.kind = "UdpOutputPortDecl"
    THEN PrimPorts[1].syntax.initializer ELSE NoInitializer

InitialLocation == <<"initial", 0, 0>>

\* C21 as stated, for a well-formed port list: an initial statement in a
\* combinational primitive gets PrimitiveInitialInComb and no initial value
\* is stored; in a sequential primitive an initial statement whose target
\* is not the output port gets PrimitiveWrongInitial; and an initial value
\* is stored exactly when the initializer is an integer literal, 1 bit wide
\* or unsized, of value 0, 1 or 1-bit x, any other initializer that is not
\* bad getting PrimitiveInitVal.
C21_AsStated ==
    DonePrimitive /\ WellFormedPortList /\ HasInitial =>
        /\ ~results[1].isSequential =>
              /\ DiagsWith("PrimitiveInitialInComb") # {}
              /\ results[1].initVal = "none"
        /\ (/\ results[1].isSequential
            /\ syntax.initialStmt.name # ""
            /\ syntax.initialStmt.name # PrimPorts[1].name)
           => DiagsWith("PrimitiveWrongInitial") # {}
        /\ results[1].isSequential =>
              LET v == IF InlineValue # NoInitializer THEN InlineValue
                       ELSE syntax.initialStmt.value
              IN /\ results[1].initVal # "none" <=> IsInitialValue(v)
                 /\ ~v.bad /\ ~IsInitialValue(v) => DiagsWith("PrimitiveInitVal") # {}

\* C21 amended, for a port list of at least two ports with an output first.
\* In a combinational primitive an initial statement gets exactly one
\* PrimitiveInitialInComb and no initial value is stored. In a sequential
\* primitive whose output declaration gives a value inline, an initial
\* statement gets exactly one PrimitiveDupInitial, its target is not looked
\* at, and the inline value is the initializer. In a sequential primitive
\* without an inline value the statement's value is the initializer, and
\* the statement gets exactly one PrimitiveWrongInitial exactly when its
\* target and the output port's name are both non-empty and differ. An
\* initial value is stored exactly when the initializer is an integer
\* literal, 1 bit wide or unsized, of value 0, 1 or 1-bit x; any other
\* initializer that is not bad gets exactly one PrimitiveInitVal, and a bad
\* one gets none.
C21_InitialStatement ==
    DonePrimitive /\ Len(PrimPorts) >= 2 /\ PrimPorts[1].direction # "In" =>
        LET seq == results[1].isSequential
            inline == seq /\ InlineValue # NoInitializer
            v == IF inline THEN InlineValue
                 ELSE IF seq /\ HasInitial THEN syntax.initialStmt.value
                 ELSE NoInitializer
        IN /\ Cardinality(DiagsWith("PrimitiveInitialInComb"))
                 = IF HasInitial /\ ~seq THEN 1 ELSE 0
           /\ Cardinality(DiagsWith("PrimitiveDupInitial"))
                 = IF HasInitial /\ inline THEN 1 ELSE 0
           /\ Cardinality(DiagsWith("PrimitiveWrongInitial"))
                 = IF /\ HasInitial /\ seq /\ ~inline
                      /\ syntax.initialStmt.name # ""
                      /\ PrimPorts[1].name # ""
                      /\ syntax.initialStmt.name # PrimPorts[1].name
                   THEN 1 ELSE 0
           /\ results[1].initVal # "none" <=> (v # NoInitializer /\ IsInitialValue(v))
           /\ results[1].initVal # "none" => results[1].initVal = v.value
           /\ Cardinality(DiagsWith("PrimitiveInitVal"))
                 = IF v # NoInitializer /\ ~v.bad /\ ~IsInitialValue(v) THEN 1 ELSE 0

C21_Witness ==
    /\ DonePrimitive
    /\ IsNonAnsi
    /\ results[1].isSequential
    /\ syntax.initialStmt = [name |-> "q", value |-> IntegerLiteral(1, FALSE, "x")]
    /\ results[1].initVal = "x"
    /\ diags = <<>>

\* ------------------------------------------------------------------
\* PrimitiveSymbol::fromSyntax: the wildcard port list
\* ------------------------------------------------------------------

IsWildcard == syntax.kind = "UdpDeclaration" /\ syntax.portList.kind = "WildcardUdpPortList"

\* C22: a UDP declared with a wildcard port list `(.*)` is rejected with
\* the diagnostic UnsupportedUdpPortList.
C22_AsStated ==
    (DonePrimitive /\ IsWildcard) => DiagsWith("UnsupportedUdpPortList") # {}

\* ------------------------------------------------------------------
\* AssertionPortSymbol::buildPorts
\* ------------------------------------------------------------------

\* The symbol kinds of the scopes that own an assertion port list.
AssertionScopeKinds == {"Sequence", "Property", "LetDecl"}

\* item->direction: the keyword written after `local`, "none" when absent.
LocalDirections == {"none", "In", "Out", "InOut"}

\* item->type: an ImplicitType without signing and dimensions ("Empty"),
\* an ImplicitType with a signing ("Signed"), or an explicit type.
PortTypeKinds == {"Empty", "Signed", "IntType", "PropertyType", "SequenceType"}

AssertionItemPort(local, direction, type, dimensions, defaultValue) ==
    [local |-> local, direction |-> direction, type |-> type,
     dimensions |-> dimensions, defaultValue |-> defaultValue]

\* The items of a port list: every `local` and direction with and without
\* a type, default values on some of them, and the remaining type kinds
\* and dimensions on ports without `local`.
AssertionItemPorts ==
    {AssertionItemPort(FALSE, "none", t, FALSE, d) :
        t \in {"Empty", "IntType"}, d \in BOOLEAN}
    \cup {AssertionItemPort(TRUE, dir, t, FALSE, FALSE) :
        dir \in LocalDirections, t \in {"Empty", "IntType"}}
    \cup {AssertionItemPort(TRUE, dir, "IntType", FALSE, TRUE) :
        dir \in {"none", "Out", "InOut"}}
    \cup {AssertionItemPort(FALSE, "none", t, FALSE, FALSE) :
        t \in {"Signed", "PropertyType", "SequenceType"}}
    \cup {AssertionItemPort(FALSE, "none", "Empty", TRUE, FALSE)}

AssertionItemPortLists ==
    [kind : {"AssertionItemPortList"},
     ports : SeqsUpTo(AssertionItemPorts, MaxAssertionPorts)]

AssertionScopes == [kind : AssertionScopeKinds]

PortLocation(i) == <<"port", i, 0>>

\* The type syntax of the i-th item; 0 stands for nullptr.
NoTypeSyntax == 0

isEmpty(type) == type = "Empty"

AssertionPortSymbol(localVarDirection, typeSyntax, type, flags, defaultValueSyntax) ==
    [kind |-> "AssertionPort", localVarDirection |-> localVarDirection,
     typeSyntax |-> typeSyntax, type |-> type, flags |-> flags,
     defaultValueSyntax |-> defaultValueSyntax]

\* port->localVarDirection: the written direction of a local port, the
\* previous port's for a port without type, otherwise unset ("none").
portLocalVarDirection(item, lastLocalDir) ==
    IF item.local
    THEN IF item.direction # "none" THEN item.direction ELSE "In"
    ELSE IF isEmpty(item.type) THEN lastLocalDir
    ELSE "none"

localDirDiags(scp, item, i) ==
    IF /\ item.local
       /\ scp.kind = "Property"
       /\ portLocalVarDirection(item, "none") # "In"
    THEN <<Diag("AssertionPortPropOutput", PortLocation(i))>>
    ELSE <<>>

typeToInherit_KeepAcrossLocal(item, lastType) == lastType

\* lastType after the `local` test: a local keyword never inherits.
typeToInherit(item, lastType) ==
    IF item.local THEN NoTypeSyntax ELSE lastType

typeFlags(localVarDirection) ==
    IF localVarDirection # "none" THEN {"RequireSequenceType"} ELSE {}

untypedDiags(scp, item, i) ==
    (IF item.dimensions
     THEN <<Diag("InvalidArrayElemType", PortLocation(i))>> ELSE <<>>)
    \o (IF item.local /\ scp.kind # "LetDecl"
        THEN <<Diag("LocalVarTypeRequired", PortLocation(i))>> ELSE <<>>)

explicitTypeDiags(scp, item, i) ==
    IF item.type = "PropertyType" /\ scp.kind = "Sequence"
    THEN <<Diag("PropertyPortInSeq", PortLocation(i))>>
    ELSE IF item.type \in {"PropertyType", "SequenceType"} /\ scp.kind = "LetDecl"
    THEN <<Diag("PropertyPortInLet", PortLocation(i))>>
    ELSE <<>>

isOutputDirection(dir) == dir \in {"Out", "InOut"}

defaultValueDiags(item, dir, i) ==
    IF item.defaultValue /\ isOutputDirection(dir)
    THEN <<Diag("AssertionPortOutputDefault", PortLocation(i))>>
    ELSE <<>>

defaultValueSyntax_AlwaysStored(item, dir, i) ==
    IF item.defaultValue THEN i ELSE 0

\* port->defaultValueSyntax: the index of the item whose default it is.
defaultValueSyntax(item, dir, i) ==
    IF item.defaultValue /\ ~isOutputDirection(dir) THEN i ELSE 0

\* One iteration of the loop over syntax.ports.
buildPortStep(scp, item, i, st) ==
    LET dir    == portLocalVarDirection(item, st.lastLocalDir)
        inh    == typeToInherit(item, st.lastType)
        flags  == typeFlags(dir)
        empty  == isEmpty(item.type)
        tsyn   == IF empty THEN inh ELSE i
        type   == IF empty /\ inh = NoTypeSyntax THEN "untyped" ELSE "unresolved"
        tdiags == IF empty
                  THEN IF inh # NoTypeSyntax THEN <<>> ELSE untypedDiags(scp, item, i)
                  ELSE explicitTypeDiags(scp, item, i)
        port   == AssertionPortSymbol(dir, tsyn, type, flags,
                                      defaultValueSyntax(item, dir, i))
    IN [lastType     |-> IF empty THEN inh ELSE i,
        lastLocalDir |-> dir,
        results      |-> Append(st.results, port),
        diags        |-> st.diags \o localDirDiags(scp, item, i) \o tdiags
                           \o defaultValueDiags(item, dir, i)]

RECURSIVE buildPortsLoop(_, _, _, _)
buildPortsLoop(scp, items, i, st) ==
    IF i > Len(items) THEN st
    ELSE buildPortsLoop(scp, items, i + 1, buildPortStep(scp, items[i], i, st))

BuildPorts(scp, syn) ==
    buildPortsLoop(scp, syn.ports, 1,
                   [lastType |-> NoTypeSyntax, lastLocalDir |-> "none",
                    results |-> <<>>, diags |-> <<>>])

InitAssertionPort ==
    /\ scope \in AssertionScopes
    /\ syntax \in AssertionItemPortLists
    /\ netTypeSym = NoSymbol
    /\ results = <<>>
    /\ implicitNets = <<>>
    /\ diags = <<>>
    /\ calls = <<>>
    /\ pc = "call"

AssertionPortSymbol_buildPorts ==
    /\ pc = "call"
    /\ syntax.kind = "AssertionItemPortList"
    /\ LET r == BuildPorts(scope, syntax)
       IN /\ results' = r.results
          /\ diags' = r.diags
    /\ pc' = "done"
    /\ UNCHANGED <<scope, syntax, netTypeSym, implicitNets, calls>>

NextAssertionPort == AssertionPortSymbol_buildPorts

SpecAssertionPort == InitAssertionPort /\ [][NextAssertionPort]_vars

DoneBuildPorts == pc = "done" /\ syntax.kind = "AssertionItemPortList"

NameOnly(i) == isEmpty(syntax.ports[i].type)

HasExplicitType(i) == ~isEmpty(syntax.ports[i].type)

\* The ports with an explicit type before port i.
TypedBefore(i) == {j \in 1..(i - 1) : HasExplicitType(j)}

MostRecentTyped(i) == CHOOSE j \in TypedBefore(i) : \A k \in TypedBefore(i) : k <= j

LocalWithin(a, b) == \E k \in a..b : syntax.ports[k].local

LocalVarTypeRequiredAt(i) ==
    DiagsAt("LocalVarTypeRequired", PortLocation(i)) # {}

UntypedRule(i) ==
    /\ results[i].type = "untyped" <=> results[i].typeSyntax = NoTypeSyntax
    /\ LocalVarTypeRequiredAt(i) <=>
          (NameOnly(i) /\ syntax.ports[i].local /\ scope.kind # "LetDecl")

\* C23 as stated: a name-only port takes the type syntax of the most recent
\* preceding port with an explicit type provided no port from that port
\* onward (that port and the name-only port included) has `local`;
\* otherwise it is untyped; a local port without type outside a let
\* declaration gets LocalVarTypeRequired.
C23_AsStated ==
    DoneBuildPorts =>
        \A i \in 1..Len(results) :
            /\ NameOnly(i) =>
                 IF TypedBefore(i) # {} /\ ~LocalWithin(MostRecentTyped(i), i)
                 THEN results[i].typeSyntax = MostRecentTyped(i)
                 ELSE results[i].typeSyntax = NoTypeSyntax
            /\ UntypedRule(i)

\* C23: a name-only port takes the type syntax of the most recent preceding
\* port with an explicit type provided no port after that port, up to and
\* including the name-only port, has `local` (the typed port itself may be
\* local); otherwise it is untyped; a port with an explicit type takes its
\* own; a local port without type outside a let declaration, and only such
\* a port, gets LocalVarTypeRequired.
C23_TypeInheritance ==
    DoneBuildPorts =>
        /\ Len(results) = Len(syntax.ports)
        /\ \A i \in 1..Len(results) :
            /\ NameOnly(i) =>
                 IF TypedBefore(i) # {} /\ ~LocalWithin(MostRecentTyped(i) + 1, i)
                 THEN results[i].typeSyntax = MostRecentTyped(i)
                 ELSE results[i].typeSyntax = NoTypeSyntax
            /\ HasExplicitType(i) => results[i].typeSyntax = i
            /\ UntypedRule(i)

\* `local int a, b, c`: both name-only ports take the type of the local port.
C23_Witness ==
    /\ DoneBuildPorts
    /\ Len(results) = 3
    /\ syntax.ports[1].local /\ HasExplicitType(1)
    /\ NameOnly(2) /\ NameOnly(3)
    /\ ~syntax.ports[2].local /\ ~syntax.ports[3].local
    /\ results[2].typeSyntax = 1 /\ results[3].typeSyntax = 1

PrevLocalDir(i) == IF i = 1 THEN "none" ELSE results[i - 1].localVarDirection

WrittenDirection(i) ==
    IF syntax.ports[i].direction # "none" THEN syntax.ports[i].direction ELSE "In"

\* C24: a local port gets the written direction, or `in` when none is
\* written; a port with neither `local` nor a type inherits the local
\* direction of the port immediately before it; a non-local port with an
\* explicit type has none; a local port whose direction is out or inout in
\* a property gets AssertionPortPropOutput, and no other port does; a
\* default value on a port whose local direction is out or inout gets
\* AssertionPortOutputDefault and is not stored, any other default value is
\* stored without that diagnostic; and a port carries the
\* require-sequence-type flag exactly when it has a local direction.
C24_LocalDirection ==
    DoneBuildPorts =>
        \A i \in 1..Len(results) :
            LET item == syntax.ports[i]
                port == results[i]
                dir  == port.localVarDirection
            IN /\ item.local => dir = WrittenDirection(i)
               /\ (~item.local /\ NameOnly(i)) => dir = PrevLocalDir(i)
               /\ (~item.local /\ HasExplicitType(i)) => dir = "none"
               /\ DiagsAt("AssertionPortPropOutput", PortLocation(i)) # {} <=>
                      (item.local /\ scope.kind = "Property" /\ dir \in {"Out", "InOut"})
               /\ Cardinality(DiagsAt("AssertionPortPropOutput", PortLocation(i))) <= 1
               /\ DiagsAt("AssertionPortOutputDefault", PortLocation(i)) # {} <=>
                      (item.defaultValue /\ dir \in {"Out", "InOut"})
               /\ port.defaultValueSyntax = i <=>
                      (item.defaultValue /\ dir \notin {"Out", "InOut"})
               /\ port.defaultValueSyntax \in {0, i}
               /\ "RequireSequenceType" \in port.flags <=> dir # "none"

\* `local inout int a = d, b, int c = d` in a property: a is diagnosed
\* twice and loses its default, b inherits inout, c has no direction and
\* keeps its default.
C24_Witness ==
    /\ DoneBuildPorts
    /\ scope.kind = "Property"
    /\ Len(results) = 3
    /\ syntax.ports[1].local /\ syntax.ports[1].direction = "InOut"
    /\ syntax.ports[1].defaultValue
    /\ results[1].defaultValueSyntax = 0
    /\ DiagsAt("AssertionPortPropOutput", PortLocation(1)) # {}
    /\ DiagsAt("AssertionPortOutputDefault", PortLocation(1)) # {}
    /\ ~syntax.ports[2].local /\ NameOnly(2)
    /\ results[2].localVarDirection = "InOut"
    /\ "RequireSequenceType" \in results[2].flags
    /\ ~syntax.ports[3].local /\ HasExplicitType(3)
    /\ results[3].localVarDirection = "none"
    /\ results[3].flags = {}
    /\ results[3].defaultValueSyntax = 3

\* ------------------------------------------------------------------
\* ExplicitImportSymbol::importedSymbol (SpecImport)
\* ------------------------------------------------------------------

\* The packages of the compilation and the members they offer for import.
CompilationPackages == {"p"}

PackageMembers == {"x"}

PackageNames == {"", "p", "u"}

ImportNames == {"", "x", "y"}

PackageImportItems ==
    [kind : {"PackageImportItem"}, package : PackageNames, item : ImportNames]

\* The symbols that own the scopes from the import's parent scope upwards:
\* nested scopes, then a package, an instance body or the compilation unit.
InnerScopeKinds == {"Subroutine", "StatementBlock", "ClassType"}

OuterScopeChains ==
    {<<"Package", "CompilationUnit", "Root">>,
     <<"InstanceBody", "Root">>,
     <<"CompilationUnit", "Root">>}

ScopeChains ==
    {inner \o outer : inner \in SeqsUpTo(InnerScopeKinds, MaxScopeDepth),
                      outer \in OuterScopeChains}

ImportScopes == [kind : {"ImportScope"}, chain : ScopeChains, lintMode : BOOLEAN]

PackageLocation == <<"package", 0, 0>>

ItemLocation == <<"item", 0, 0>>

NoPackage == "null"

NoImport == "null"

ExplicitImportSymbol(packageName, importName) ==
    [kind |-> "ExplicitImport", packageName |-> packageName,
     importName |-> importName, initialized |-> FALSE,
     package_ |-> NoPackage, import |-> NoImport]

\* Compilation::getPackage
getPackage(packageName) ==
    IF packageName \in CompilationPackages THEN packageName ELSE NoPackage

\* findPackage: the package and the diagnostics of the lookup.
findPackage(packageName, scp, errorLoc) ==
    LET package == getPackage(packageName)
    IN [package |-> package,
        diags |-> IF package = NoPackage /\ packageName # "" /\ ~scp.lintMode
                  THEN <<Diag("UnknownPackage", errorLoc)>>
                  ELSE <<>>]

\* PackageSymbol::findForImport
findForImport(package, importName) ==
    IF importName \in PackageMembers THEN importName ELSE NoImport

unknownMemberDiags(importName) ==
    IF importName # "" THEN <<Diag("UnknownPackageMember", ItemLocation)>> ELSE <<>>

\* The do-while walk from the parent scope up to the first package: the
\* noteImport call made on it, none when the walk runs out of scopes.
RECURSIVE noteImportWalk(_, _, _)
noteImportWalk_ParentOnly(chain, i, import) ==
    IF chain[1] = "Package" THEN <<Call("noteImport", 1, import, {})>> ELSE <<>>

noteImportWalk(chain, i, import) ==
    IF i > Len(chain) THEN <<>>
    ELSE IF chain[i] = "Package" THEN <<Call("noteImport", i, import, {})>>
    ELSE noteImportWalk(chain, i + 1, import)

\* ExplicitImportSymbol::importedSymbol: the symbol afterwards, the value
\* returned, the diagnostics added and the calls made.
importedSymbol(sym, scp) ==
    IF sym.initialized
    THEN [sym |-> sym, value |-> sym.import, diags |-> <<>>, calls |-> <<>>]
    ELSE LET found == findPackage(sym.packageName, scp, PackageLocation)
             import == findForImport(found.package, sym.importName)
             marked == [sym EXCEPT !.initialized = TRUE, !.package_ = found.package]
         IN IF found.package = NoPackage
            THEN [sym |-> marked, value |-> NoImport,
                  diags |-> found.diags, calls |-> <<>>]
            ELSE IF import = NoImport
            THEN [sym |-> marked, value |-> NoImport,
                  diags |-> found.diags \o unknownMemberDiags(sym.importName),
                  calls |-> <<>>]
            ELSE [sym |-> [marked EXCEPT !.import = import], value |-> import,
                  diags |-> found.diags,
                  calls |-> noteImportWalk(scp.chain, 1, import)]

InitImport ==
    /\ scope \in ImportScopes
    /\ syntax \in PackageImportItems
    /\ netTypeSym = NoSymbol
    /\ results = <<ExplicitImportSymbol(syntax.package, syntax.item)>>
    /\ implicitNets = <<>>
    /\ diags = <<>>
    /\ calls = <<>>
    /\ pc = "call"

QueriesOf(op) == {i \in 1..Len(calls) : calls[i].op = op}

ExplicitImportSymbol_importedSymbol ==
    /\ syntax.kind = "PackageImportItem"
    /\ results[1].kind = "ExplicitImport"
    /\ Cardinality(QueriesOf("importedSymbol")) < MaxQueries
    /\ LET out == importedSymbol(results[1], scope)
       IN /\ results' = <<out.sym>>
          /\ diags' = diags \o out.diags
          /\ calls' = calls \o out.calls
                        \o <<Call("importedSymbol", 0, out.value, {})>>
    /\ pc' = "done"
    /\ UNCHANGED <<scope, syntax, netTypeSym, implicitNets>>

NextImport == ExplicitImportSymbol_importedSymbol

SpecImport == InitImport /\ [][NextImport]_vars

DoneImport == pc = "done" /\ syntax.kind = "PackageImportItem"

NotedImports == QueriesOf("noteImport")

EnclosingPackages == {i \in 1..Len(scope.chain) : scope.chain[i] = "Package"}

NearestPackage == CHOOSE i \in EnclosingPackages : \A k \in EnclosingPackages : i <= k

ImportResolves ==
    syntax.package \in CompilationPackages /\ syntax.item \in PackageMembers

\* C27: an explicit import that resolves from a scope nested at any depth
\* inside a package is recorded exactly once, on the nearest enclosing
\* package, however often it is queried; nothing is recorded when the
\* package or the member is not found or when no enclosing scope is a
\* package; a member with a non-empty name that an existing package does
\* not have is reported as UnknownPackageMember.
C27_ImportRecordedOnce ==
    DoneImport =>
        /\ (ImportResolves /\ EnclosingPackages # {}) =>
              /\ Cardinality(NotedImports) = 1
              /\ \A i \in NotedImports :
                    /\ calls[i].decl = NearestPackage
                    /\ calls[i].target = syntax.item
        /\ (~ImportResolves \/ EnclosingPackages = {}) => NotedImports = {}
        /\ (/\ syntax.package \in CompilationPackages
            /\ syntax.item \notin PackageMembers
            /\ syntax.item # "")
           => Cardinality(DiagsWith("UnknownPackageMember")) = 1
        /\ ImportResolves => diags = <<>>

\* `import p::x;` two scopes deep inside a package, queried twice: one
\* record, on the package.
C27_Witness ==
    /\ DoneImport
    /\ ImportResolves
    /\ Len(scope.chain) >= 5
    /\ NearestPackage = 3
    /\ Cardinality(QueriesOf("importedSymbol")) = 2
    /\ Cardinality(NotedImports) = 1
    /\ results[1].import = "x"

\* ------------------------------------------------------------------
\* Lazily computed fields (SpecLazy)
\* ------------------------------------------------------------------

\* A std::optional member: empty, or holding a value that may be null.
UnsetCell == [has |-> FALSE, value |-> "null"]

SetCell(value) == [has |-> TRUE, value |-> value]

\* What a getter leaves: the symbol, the value returned, the diagnostics
\* added and the calls made to bind or look up.
Got(sym, value, diagnostics, made) ==
    [sym |-> sym, value |-> value, diags |-> diagnostics, calls |-> made]

\* The diagnostics that binding the syntax adds: as many as it has errors.
bindDiags(syn, what) ==
    IF syn.bindErrors THEN <<Diag("BindError", <<what, 0, 0>>)>> ELSE <<>>

bindCall(what) == <<Call("bind", 0, what, {})>>

\* --- NetSymbol::getDelay ---
LazyNetDeclarators ==
    [kind : {"Declarator"},
     parent : {"null", "NetDeclaration", "DataDeclaration", "PortDeclaration"},
     delay : BOOLEAN, className : BOOLEAN, bindErrors : BOOLEAN]

LazyNetSymbol == [kind |-> "Net", delay |-> UnsetCell]

netGetDelay(sym, syn) ==
    IF sym.delay.has THEN Got(sym, sym.delay.value, <<>>, <<>>)
    ELSE IF syn.parent = "null"
    THEN Got([sym EXCEPT !.delay = SetCell("null")], "null", <<>>, <<>>)
    ELSE IF syn.parent = "NetDeclaration" /\ syn.delay
    THEN Got([sym EXCEPT !.delay = SetCell("delay")], "delay",
             bindDiags(syn, "delay"), bindCall("delay"))
    ELSE IF syn.parent = "DataDeclaration" /\ syn.className
    THEN Got([sym EXCEPT !.delay = SetCell("delay")], "delay",
             bindDiags(syn, "params"), bindCall("params"))
    ELSE Got([sym EXCEPT !.delay = SetCell("null")], "null", <<>>, <<>>)

\* --- ContinuousAssignSymbol::getAssignment, getDelay ---
LazyAssignExpressions ==
    [kind : {"AssignExpression"}, parent : BOOLEAN,
     delay : {"none", "Delay", "Delay3"}, lhsVars : BOOLEAN, bindErrors : BOOLEAN]

LazyAssignSymbol == [kind |-> "ContinuousAssign", assign |-> "null", delay |-> UnsetCell]

assignGetAssignment(sym, syn) ==
    IF sym.assign # "null" THEN Got(sym, sym.assign, <<>>, <<>>)
    ELSE Got([sym EXCEPT !.assign = "expr"], "expr",
             bindDiags(syn, "assign"), bindCall("assign"))

assignGetDelay(sym, syn) ==
    IF sym.delay.has THEN Got(sym, sym.delay.value, <<>>, <<>>)
    ELSE IF ~syn.parent \/ syn.delay = "none"
    THEN Got([sym EXCEPT !.delay = SetCell("null")], "null", <<>>, <<>>)
    ELSE LET bound == [sym EXCEPT !.delay = SetCell("delay")]
             expr  == assignGetAssignment(bound, syn)
         IN IF syn.delay = "Delay3"
            THEN Got(expr.sym, "delay",
                     bindDiags(syn, "delay") \o expr.diags
                        \o (IF syn.lhsVars
                            THEN <<Diag("Delay3OnVar", <<"assign", 0, 0>>)>>
                            ELSE <<>>),
                     bindCall("delay") \o expr.calls)
            ELSE Got(bound, "delay", bindDiags(syn, "delay"), bindCall("delay"))

\* --- ClockingBlockSymbol::getEvent, getDefaultInputSkew, getDefaultOutputSkew ---
LazyClockingDeclarations ==
    [kind : {"LazyClockingDeclaration"}, inputSkew : BOOLEAN, outputSkew : BOOLEAN,
     bindErrors : BOOLEAN]

LazyClockingSymbol ==
    [kind |-> "ClockingBlock", event |-> "null",
     defaultInputSkew |-> UnsetCell, defaultOutputSkew |-> UnsetCell]

clockingGetEvent(sym, syn) ==
    IF sym.event # "null" THEN Got(sym, sym.event, <<>>, <<>>)
    ELSE Got([sym EXCEPT !.event = "event"], "event",
             bindDiags(syn, "event"), bindCall("event"))

clockingGetInputSkew(sym, syn) ==
    IF sym.defaultInputSkew.has THEN Got(sym, sym.defaultInputSkew.value, <<>>, <<>>)
    ELSE IF syn.inputSkew
    THEN Got([sym EXCEPT !.defaultInputSkew = SetCell("skew")], "skew",
             bindDiags(syn, "inputSkew"), bindCall("inputSkew"))
    ELSE Got([sym EXCEPT !.defaultInputSkew = SetCell("empty")], "empty", <<>>, <<>>)

clockingGetOutputSkew(sym, syn) ==
    IF sym.defaultOutputSkew.has THEN Got(sym, sym.defaultOutputSkew.value, <<>>, <<>>)
    ELSE IF syn.outputSkew
    THEN Got([sym EXCEPT !.defaultOutputSkew = SetCell("skew")], "skew",
             bindDiags(syn, "outputSkew"), bindCall("outputSkew"))
    ELSE Got([sym EXCEPT !.defaultOutputSkew = SetCell("empty")], "empty", <<>>, <<>>)

\* --- RandSeqProductionSymbol::getRules ---
Productions == [kind : {"Production"}, rules : BOOLEAN, bindErrors : BOOLEAN]

LazyProductionSymbol == [kind |-> "RandSeqProduction", rules |-> UnsetCell]

productionGetRules(sym, syn) ==
    IF sym.rules.has THEN Got(sym, sym.rules.value, <<>>, <<>>)
    ELSE IF syn.rules
    THEN Got([sym EXCEPT !.rules = SetCell("rules")], "rules",
             bindDiags(syn, "rule"), bindCall("rule"))
    ELSE Got([sym EXCEPT !.rules = SetCell("empty")], "empty", <<>>, <<>>)

\* --- WildcardImportSymbol::getPackage ---
WildcardImportSymbol(packageName) ==
    [kind |-> "WildcardImport", packageName |-> packageName, package |-> UnsetCell]

packageIsSet_NonNull(cell) == cell.value # NoPackage

\* `if (!package)` on the optional: set once a lookup was made, found or not.
packageIsSet(cell) == cell.has

wildcardGetPackage(sym, scp) ==
    IF packageIsSet(sym.package) THEN Got(sym, sym.package.value, <<>>, <<>>)
    ELSE LET found == findPackage(sym.packageName, scp, PackageLocation)
         IN Got([sym EXCEPT !.package = SetCell(found.package)], found.package,
                found.diags, <<Call("findPackage", 0, sym.packageName, {})>>)

\* --- the symbols queried ---
LazyScopes ==
    [kind : {"ImportScope"}, chain : {<<"Package", "CompilationUnit", "Root">>},
     lintMode : BOOLEAN]

LazyTasks ==
    {t \in ElabSystemTasks : Len(t.parameters) <= 1}

InitLazy ==
    /\ scope \in LazyScopes
    /\ \/ syntax \in LazyNetDeclarators /\ results = <<LazyNetSymbol>>
       \/ syntax \in LazyAssignExpressions /\ results = <<LazyAssignSymbol>>
       \/ syntax \in LazyClockingDeclarations /\ results = <<LazyClockingSymbol>>
       \/ syntax \in Productions /\ results = <<LazyProductionSymbol>>
       \/ syntax \in PackageImportItems
          /\ results \in {<<ExplicitImportSymbol(syntax.package, syntax.item)>>,
                          <<WildcardImportSymbol(syntax.package)>>}
       \/ syntax \in LazyTasks /\ results = <<ElabSystemTaskSymbol(syntax.name)>>
    /\ netTypeSym = NoSymbol
    /\ implicitNets = <<>>
    /\ diags = <<>>
    /\ calls = <<>>
    /\ pc = "call"

GetterNames ==
    {"NetSymbol::getDelay", "getAssignment", "getDelay", "getEvent",
     "getDefaultInputSkew", "getDefaultOutputSkew", "getRules",
     "importedSymbol", "getPackage", "getMessage"}

\* The queries made so far, in order.
Queries == SelectSeq(calls, LAMBDA c : c.op \in GetterNames)

\* A query of a getter: what the getter leaves, and the query recorded with
\* the value it returned.
Query(op, out) ==
    /\ Len(Queries) < MaxQueries
    /\ results' = <<out.sym>>
    /\ diags' = diags \o out.diags
    /\ calls' = calls \o out.calls \o <<Call(op, 0, out.value, {})>>
    /\ pc' = "done"
    /\ UNCHANGED <<scope, syntax, netTypeSym, implicitNets>>

NetSymbol_getDelay ==
    /\ results[1].kind = "Net" /\ syntax.kind = "Declarator"
    /\ Query("NetSymbol::getDelay", netGetDelay(results[1], syntax))

ContinuousAssignSymbol_getAssignment ==
    /\ results[1].kind = "ContinuousAssign" /\ syntax.kind = "AssignExpression"
    /\ Query("getAssignment", assignGetAssignment(results[1], syntax))

ContinuousAssignSymbol_getDelay ==
    /\ results[1].kind = "ContinuousAssign" /\ syntax.kind = "AssignExpression"
    /\ Query("getDelay", assignGetDelay(results[1], syntax))

ClockingBlockSymbol_getEvent ==
    /\ results[1].kind = "ClockingBlock" /\ syntax.kind = "LazyClockingDeclaration"
    /\ Query("getEvent", clockingGetEvent(results[1], syntax))

ClockingBlockSymbol_getDefaultInputSkew ==
    /\ results[1].kind = "ClockingBlock" /\ syntax.kind = "LazyClockingDeclaration"
    /\ Query("getDefaultInputSkew", clockingGetInputSkew(results[1], syntax))

ClockingBlockSymbol_getDefaultOutputSkew ==
    /\ results[1].kind = "ClockingBlock" /\ syntax.kind = "LazyClockingDeclaration"
    /\ Query("getDefaultOutputSkew", clockingGetOutputSkew(results[1], syntax))

RandSeqProductionSymbol_getRules ==
    /\ results[1].kind = "RandSeqProduction" /\ syntax.kind = "Production"
    /\ Query("getRules", productionGetRules(results[1], syntax))

WildcardImportSymbol_getPackage ==
    /\ results[1].kind = "WildcardImport" /\ syntax.kind = "PackageImportItem"
    /\ Query("getPackage", wildcardGetPackage(results[1], scope))

NextLazy ==
    \/ NetSymbol_getDelay
    \/ ContinuousAssignSymbol_getAssignment
    \/ ContinuousAssignSymbol_getDelay
    \/ ClockingBlockSymbol_getEvent
    \/ ClockingBlockSymbol_getDefaultInputSkew
    \/ ClockingBlockSymbol_getDefaultOutputSkew
    \/ RandSeqProductionSymbol_getRules
    \/ ExplicitImportSymbol_importedSymbol
    \/ WildcardImportSymbol_getPackage
    \/ ElabSystemTaskSymbol_getMessage

SpecLazy == InitLazy /\ [][NextLazy]_vars


\* The cell behind a getter: whether it holds a computed value, and which.
FieldComputed(sym, op) ==
    CASE op = "NetSymbol::getDelay" -> sym.delay.has
      [] op = "getAssignment" -> sym.assign # "null"
      [] op = "getDelay" -> sym.delay.has
      [] op = "getEvent" -> sym.event # "null"
      [] op = "getDefaultInputSkew" -> sym.defaultInputSkew.has
      [] op = "getDefaultOutputSkew" -> sym.defaultOutputSkew.has
      [] op = "getRules" -> sym.rules.has
      [] op = "importedSymbol" -> sym.initialized
      [] op = "getPackage" -> sym.package.has
      [] op = "getMessage" -> sym.message.has

FieldValue(sym, op) ==
    CASE op = "NetSymbol::getDelay" -> sym.delay.value
      [] op = "getAssignment" -> sym.assign
      [] op = "getDelay" -> sym.delay.value
      [] op = "getEvent" -> sym.event
      [] op = "getDefaultInputSkew" -> sym.defaultInputSkew.value
      [] op = "getDefaultOutputSkew" -> sym.defaultOutputSkew.value
      [] op = "getRules" -> sym.rules.value
      [] op = "importedSymbol" -> sym.import
      [] op = "getPackage" -> sym.package.value
      [] op = "getMessage" -> "task"

\* A step that makes a query: the last call recorded is the query.
IsQueryStep ==
    /\ Len(calls') > Len(calls)
    /\ calls'[Len(calls')].op \in GetterNames

\* A query of a field that holds a computed value changes nothing: no
\* symbol field, no diagnostic, no call to bind or look up.
MemoizedStep ==
    FieldComputed(results[1], calls'[Len(calls')].op) =>
        /\ results' = results
        /\ diags' = diags
        /\ Len(calls') = Len(calls) + 1

\* Every query leaves the field computed and returns what the field holds.
StoredStep ==
    LET q == calls'[Len(calls')]
    IN /\ FieldComputed(results'[1], q.op)
       /\ q.target = FieldValue(results'[1], q.op)

\* C25: for every lazily computed field the first query computes the value
\* and stores it, a null or empty one included, and every later query, in
\* any order with queries of the other fields, returns the stored value
\* without binding, looking up or diagnosing again.
C25_Memoized == [][IsQueryStep => (MemoizedStep /\ StoredStep)]_vars

\* A wildcard import of an unknown package queried twice: the null result
\* is stored and UnknownPackage is reported once.
C25_Witness ==
    /\ pc = "done"
    /\ results[1].kind = "WildcardImport"
    /\ Len(Queries) = 2
    /\ results[1].package = SetCell(NoPackage)
    /\ Queries[1].target = NoPackage /\ Queries[2].target = NoPackage
    /\ Cardinality(DiagsWith("UnknownPackage")) = 1

\* ------------------------------------------------------------------
\* Queries that arrive during a computation (SpecReentry)
\* ------------------------------------------------------------------

\* The computations of getRules (createRule) and of importedSymbol
\* (findForImport) run code that may query the same field again; the
\* getter is split where that code runs.
IsPending(c) == "computes" \in c.flags

IsFinish(c) == c.op = "finish"

\* The number of computations of the field that are running.
Depth == Len(SelectSeq(calls, IsPending)) - Len(SelectSeq(calls, IsFinish))

InitReentry ==
    /\ scope \in LazyScopes
    /\ \/ syntax \in Productions /\ results = <<LazyProductionSymbol>>
       \/ syntax \in PackageImportItems
          /\ results = <<ExplicitImportSymbol(syntax.package, syntax.item)>>
    /\ netTypeSym = NoSymbol
    /\ implicitNets = <<>>
    /\ diags = <<>>
    /\ calls = <<>>
    /\ pc = "call"

\* getRules up to the loop over the rules: `if (!rules)` and nothing else.
getRules_enter ==
    /\ results[1].kind = "RandSeqProduction" /\ syntax.kind = "Production"
    /\ Len(Queries) < MaxQueries /\ Depth < MaxDepth
    /\ IF results[1].rules.has
       THEN /\ calls' = Append(calls, Call("getRules", Depth, results[1].rules.value, {}))
            /\ pc' = pc
       ELSE /\ calls' = Append(calls, Call("getRules", Depth, "pending", {"computes"}))
            /\ pc' = "computing"
    /\ UNCHANGED <<scope, syntax, netTypeSym, results, implicitNets, diags>>

\* The rest of getRules: the rules are created and stored.
getRules_finish ==
    /\ results[1].kind = "RandSeqProduction" /\ syntax.kind = "Production"
    /\ Depth > 0
    /\ LET out == productionGetRules([results[1] EXCEPT !.rules = UnsetCell], syntax)
       IN /\ results' = <<out.sym>>
          /\ diags' = diags \o out.diags
          /\ calls' = calls \o out.calls \o <<Call("finish", Depth, out.value, {})>>
    /\ pc' = IF Depth = 1 THEN "done" ELSE pc
    /\ UNCHANGED <<scope, syntax, netTypeSym, implicitNets>>

\* importedSymbol up to the lookups: `if (!initialized) initialized = true`.
importedSymbol_enter ==
    /\ results[1].kind = "ExplicitImport" /\ syntax.kind = "PackageImportItem"
    /\ Len(Queries) < MaxQueries /\ Depth < MaxDepth
    /\ IF results[1].initialized
       THEN /\ calls' = Append(calls, Call("importedSymbol", Depth, results[1].import, {}))
            /\ results' = results
            /\ pc' = pc
       ELSE /\ calls' = Append(calls, Call("importedSymbol", Depth, "pending", {"computes"}))
            /\ results' = <<[results[1] EXCEPT !.initialized = TRUE]>>
            /\ pc' = "computing"
    /\ UNCHANGED <<scope, syntax, netTypeSym, implicitNets, diags>>

\* The rest of importedSymbol: the lookups, their diagnostics, noteImport.
importedSymbol_finish ==
    /\ results[1].kind = "ExplicitImport" /\ syntax.kind = "PackageImportItem"
    /\ Depth > 0
    /\ LET out == importedSymbol([results[1] EXCEPT !.initialized = FALSE], scope)
       IN /\ results' = <<out.sym>>
          /\ diags' = diags \o out.diags
          /\ calls' = calls \o out.calls \o <<Call("finish", Depth, out.value, {})>>
    /\ pc' = IF Depth = 1 THEN "done" ELSE pc
    /\ UNCHANGED <<scope, syntax, netTypeSym, implicitNets>>

NextReentry ==
    \/ getRules_enter
    \/ getRules_finish
    \/ importedSymbol_enter
    \/ importedSymbol_finish

SpecReentry == InitReentry /\ [][NextReentry]_vars

IsReentryModel == syntax.kind \in {"Production", "PackageImportItem"}

NotYetComputed(sym) ==
    IF sym.kind = "RandSeqProduction" THEN sym.rules = UnsetCell
    ELSE ~sym.initialized

\* The queries that arrived while a computation of the field was running.
ReentrantQueries ==
    {i \in 1..Len(calls) : calls[i].op \in GetterNames /\ calls[i].decl > 0}

\* C26: each lazily computed field is a three-state cell: while the field
\* is being computed it is in an in-progress state, which is neither the
\* not-yet-computed state nor a computed one; a query that arrives then is
\* reported as RecursiveDefinition, and a computation never re-enters itself.
C26_AsStated ==
    (IsReentryModel /\ pc # "call") =>
        /\ Depth <= 1
        /\ Depth > 0 => ~NotYetComputed(results[1])
        /\ ReentrantQueries # {} => DiagsWith("RecursiveDefinition") # {}

\* ------------------------------------------------------------------
\* RandSeqProductionSymbol::createCaseProd (SpecCaseProd)
\* ------------------------------------------------------------------

\* The productions that the names of the case items can refer to.
ProductionNames == {"a", "b"}

\* A standard item `e1, ..., en : name` carries the number of expressions
\* written; its k-th expression syntax is <<index of the item, k>>.
StandardRsCaseItems ==
    [kind : {"StandardRsCaseItem"}, expressions : 1..MaxCaseExprs,
     item : ProductionNames]

DefaultRsCaseItems == [kind : {"DefaultRsCaseItem"}, item : ProductionNames]

RsCases ==
    [kind : {"RsCase"},
     items : SeqsUpTo(StandardRsCaseItems \cup DefaultRsCaseItems, MaxCaseItems)]

CaseScopes == [kind : {"RandSeqProduction"}]

SelectorSyntax == <<0, 0>>

ExpressionSyntaxes(i, n) == [k \in 1..n |-> <<i, k>>]

\* The expression an expression syntax is bound to.
BoundExpression(es) == [kind |-> "Expression", syntax |-> es]

\* createProdItem: every name of ProductionNames is found.
createProdItem(name) == [target |-> name, args |-> <<>>]

NoProdItem == [has |-> FALSE, item |-> createProdItem("")]

Repeat(x, n) == [k \in 1..n |-> x]

\* The first loop: the expressions to bind, one production item pushed for
\* each of them, and the first default item.
RECURSIVE collectCaseItems(_, _, _)
collectCaseItems(items, i, st) ==
    IF i > Len(items) THEN st
    ELSE LET item == items[i]
             pi   == createProdItem(item.item)
         IN collectCaseItems(items, i + 1,
              IF item.kind = "StandardRsCaseItem"
              THEN [st EXCEPT
                      !.expressions = @ \o ExpressionSyntaxes(i, item.expressions),
                      !.prods = @ \o Repeat(pi, item.expressions)]
              ELSE IF ~st.defItem.has
              THEN [st EXCEPT !.defItem = [has |-> TRUE, item |-> pi]]
              ELSE st)

\* Expression::bindMembershipExpressions: the selector, then every
\* expression in the order given.
bindMembershipExpressions(selector, expressions) ==
    <<BoundExpression(selector)>>
        \o [k \in 1..Len(expressions) |-> BoundExpression(expressions[k])]

\* The second loop: each standard item takes its expressions from boundIt
\* and one production item from prodIt.
RECURSIVE groupCaseItems(_, _, _, _, _, _)
groupCaseItems(items, i, bound, boundIt, prods, prodIt) ==
    IF i > Len(items) THEN <<>>
    ELSE IF items[i].kind = "StandardRsCaseItem"
    THEN LET n == items[i].expressions
         IN <<[expressions |-> [k \in 1..n |-> bound[boundIt + k - 1]],
               item |-> prods[prodIt]]>>
            \o groupCaseItems(items, i + 1, bound, boundIt + n, prods, prodIt + 1)
    ELSE groupCaseItems(items, i + 1, bound, boundIt, prods, prodIt)

CreateCaseProd(syn) ==
    LET st == collectCaseItems(syn.items, 1,
                 [expressions |-> <<>>, prods |-> <<>>, defItem |-> NoProdItem])
        bound == bindMembershipExpressions(SelectorSyntax, st.expressions)
    IN [kind |-> "CaseProd",
        expr |-> bound[1],
        items |-> groupCaseItems(syn.items, 1, bound, 2, st.prods, 1),
        defaultItem |-> st.defItem]

InitCaseProd ==
    /\ scope \in CaseScopes
    /\ syntax \in RsCases
    /\ netTypeSym = NoSymbol
    /\ results = <<>>
    /\ implicitNets = <<>>
    /\ diags = <<>>
    /\ calls = <<>>
    /\ pc = "call"

RandSeqProductionSymbol_createCaseProd ==
    /\ pc = "call"
    /\ syntax.kind = "RsCase"
    /\ results' = <<CreateCaseProd(syntax)>>
    /\ pc' = "done"
    /\ UNCHANGED <<scope, syntax, netTypeSym, implicitNets, diags, calls>>

NextCaseProd == RandSeqProductionSymbol_createCaseProd

SpecCaseProd == InitCaseProd /\ [][NextCaseProd]_vars

DoneCaseProd == pc = "done" /\ syntax.kind = "RsCase"

\* The standard items of the case, by their index in syntax.items.
StandardItems ==
    SelectSeq([i \in 1..Len(syntax.items) |-> i],
              LAMBDA i : syntax.items[i].kind = "StandardRsCaseItem")

DefaultItems ==
    SelectSeq([i \in 1..Len(syntax.items) |-> i],
              LAMBDA i : syntax.items[i].kind = "DefaultRsCaseItem")

\* C28: the i-th resulting case item pairs exactly the bound expressions of
\* the i-th standard item, in the number and order written, with the
\* production item named in that same item; the default item is the first
\* default written.
C28_AsStated ==
    DoneCaseProd =>
        LET prod == results[1]
        IN /\ Len(prod.items) = Len(StandardItems)
           /\ \A i \in 1..Len(prod.items) :
                 LET j == StandardItems[i]
                 IN /\ prod.items[i].expressions =
                          [k \in 1..syntax.items[j].expressions |->
                              BoundExpression(<<j, k>>)]
                    /\ prod.items[i].item.target = syntax.items[j].item
           /\ prod.defaultItem.has <=> DefaultItems # <<>>
           /\ DefaultItems # <<>> =>
                 prod.defaultItem.item.target = syntax.items[DefaultItems[1]].item

\* ------------------------------------------------------------------
\* PrimitiveSymbol::fromSyntax: standalone reg specifiers (SpecPrimitive)
\* ------------------------------------------------------------------

PrimitiveCodes ==
    {"PrimitivePortDup", "PrimitivePortUnknown", "PrimitivePortMissing",
     "PrimitiveRegDup", "PrimitiveRegInput", "NotePreviousDefinition",
     "PrimitiveAnsiMix", "PrimitiveTwoPorts", "PrimitiveOutputFirst",
     "PrimitiveDupOutput", "PrimitiveInitialInComb", "PrimitiveDupInitial",
     "PrimitiveWrongInitial", "PrimitiveInitVal"}

CodeCount(ds, code) == Cardinality({i \in 1..Len(ds) : ds[i].code = code})

Directions(ports) == [i \in 1..Len(ports) |-> ports[i].direction]

\* The body declaration j names the port-list name n otherwise than as a
\* standalone reg specifier.
DeclaresName(j, n) ==
    \E e \in RegularEntries : e[1] = j /\ EntryName(e) = n

IsRegSpecifierDecl(j) == IsRegSpecifier(<<j, 1>>)

\* The declarations j and j + 1 are a standalone reg specifier and a
\* declaration of the same port, in either order.
RegNextToDeclaration(j) ==
    \/ IsRegSpecifierDecl(j) /\ ~IsRegSpecifierDecl(j + 1)
          /\ DeclaresName(j + 1, syntax.portDecls[j].name)
    \/ IsRegSpecifierDecl(j + 1) /\ ~IsRegSpecifierDecl(j)
          /\ DeclaresName(j, syntax.portDecls[j + 1].name)

Swapped(j) ==
    [syntax EXCEPT !.portDecls =
        [k \in 1..Len(syntax.portDecls) |->
            IF k = j THEN syntax.portDecls[j + 1]
            ELSE IF k = j + 1 THEN syntax.portDecls[j]
            ELSE syntax.portDecls[k]]]

SameOutcome(other) ==
    /\ Directions(other.prim.ports) = Directions(PrimPorts)
    /\ other.prim.isSequential = results[1].isSequential
    /\ \A code \in PrimitiveCodes : CodeCount(other.diags, code) = CodeCount(diags, code)

\* The last output declaration of a name is a plain `output`.
DeclaredOutput(name) == OutputEntries(name) # {} /\ ~DeclaredOutputReg(name)

RegSpecifierCodes ==
    {"PrimitivePortDup", "PrimitivePortUnknown", "PrimitivePortMissing",
     "PrimitiveRegDup", "PrimitiveRegInput"}

\* C29: in a non-ANSI UDP, exchanging a standalone `reg` specifier with a
\* declaration of the same port next to it changes neither the directions
\* of the ports nor the number of diagnostics of any code. The last
\* standalone reg specifier of a declared port makes a port declared
\* `output` an OutReg without a diagnostic, gets a PrimitivePortDup on a
\* port declared `output reg`, and gets PrimitiveRegInput on a port declared
\* `input`, which stays an input. Every standalone reg specifier after the
\* first gets PrimitiveRegDup, the first gets none. With a port list of
\* distinct names, every port declared once and one reg specifier on the
\* `output` port there is no diagnostic of the declarations at all.
C29_RegSpecifierOrder ==
    (DonePrimitive /\ IsNonAnsi) =>
        /\ \A j \in 1..(Len(syntax.portDecls) - 1) :
              RegNextToDeclaration(j) => SameOutcome(PrimitiveFromSyntax(Swapped(j)))
        /\ \A e \in DeclEntries :
              (IsSavedRegSpecifier(e) /\ Covered(EntryName(e))) =>
                 LET n == EntryName(e)
                     i == portMapFind(syntax.portList.ports, n)
                     at == DeclLocation(e[1], 1)
                 IN /\ DeclaredOutput(n) =>
                          /\ PrimPorts[i].direction = "OutReg"
                          /\ DiagsAt("PrimitivePortDup", at) = {}
                          /\ DiagsAt("PrimitiveRegInput", at) = {}
                    /\ DeclaredOutputReg(n) =>
                          /\ PrimPorts[i].direction = "OutReg"
                          /\ Cardinality(DiagsAt("PrimitivePortDup", at)) = 1
                          /\ DiagsAt("PrimitiveRegInput", at) = {}
                    /\ OutputEntries(n) = {} =>
                          /\ PrimPorts[i].direction = "In"
                          /\ Cardinality(DiagsAt("PrimitiveRegInput", at)) = 1
                          /\ DiagsAt("PrimitivePortDup", at) = {}
        /\ \A e \in DeclEntries :
              IsRegSpecifier(e) =>
                 Cardinality(DiagsAt("PrimitiveRegDup", DeclLocation(e[1], 1)))
                    = (IF \E f \in DeclEntries : IsRegSpecifier(f) /\ Before(f, e)
                       THEN 1 ELSE 0)
        /\ (/\ \A i \in 1..Len(syntax.portList.ports) :
                  Cardinality({e \in RegularEntries :
                                  EntryName(e) = syntax.portList.ports[i]}) = 1
            /\ \A i \in 1..Len(syntax.portList.ports) : FirstOfName(i)
            /\ \A e \in DeclEntries : InPortList(EntryName(e))
            /\ Cardinality({e \in DeclEntries : IsRegSpecifier(e)}) = 1
            /\ \A e \in DeclEntries : IsRegSpecifier(e) => DeclaredOutput(EntryName(e)))
           => /\ \A d \in 1..Len(diags) : diags[d].code \notin RegSpecifierCodes
              /\ \A e \in DeclEntries :
                    IsRegSpecifier(e) =>
                       PrimPorts[portMapFind(syntax.portList.ports, EntryName(e))].direction
                          = "OutReg"

\* `reg q; output q; input a;` for the port list (q, a): q ends up OutReg
\* and nothing is diagnosed.
C29_Witness ==
    /\ DonePrimitive
    /\ IsNonAnsi
    /\ syntax.portList.ports = <<"q", "a">>
    /\ syntax.portDecls = <<UdpOutputPortDecl("q", FALSE, TRUE, NoInitializer),
                            UdpOutputPortDecl("q", TRUE, FALSE, NoInitializer),
                            [kind |-> "UdpInputPortDecl", names |-> <<"a">>]>>
    /\ RegNextToDeclaration(1)
    /\ PrimPorts[1].direction = "OutReg"
    /\ diags = <<>>

\* ------------------------------------------------------------------
\* FormalArgumentSymbol::mergeVariable (SpecMergeVariable)
\* ------------------------------------------------------------------

\* The argument's declarator: the kind of its parent, and for a port
\* declaration the `var` keyword and the data type of its header.
FormalArgumentSyntaxes ==
    [kind : {"FormalArgumentDeclarator"},
     parent : {"PortDeclaration", "FunctionPort"},
     varKeyword : BOOLEAN,
     dataType : {"ImplicitType", "IntType", "NamedType"}]

MergeScopes == [kind : {"Subroutine"}]

\* The variables of the body that a caller may offer.
BodyVariables == {"v1", "v2"}

NoVariable == "null"

FormalArgumentSymbol ==
    [kind |-> "FormalArgument", mergedVar |-> NoVariable, typeFlags |-> {}]

alreadyMerged_Never(sym) == FALSE

\* if (mergedVar)
alreadyMerged(sym) == sym.mergedVar # NoVariable

\* FormalArgumentSymbol::mergeVariable: the symbol afterwards and the
\* value returned.
mergeVariable(sym, syn, variable) ==
    IF alreadyMerged(sym) THEN [sym |-> sym, value |-> FALSE]
    ELSE IF syn.parent # "PortDeclaration" THEN [sym |-> sym, value |-> FALSE]
    ELSE IF syn.varKeyword \/ syn.dataType # "ImplicitType"
    THEN [sym |-> sym, value |-> FALSE]
    ELSE [sym |-> [sym EXCEPT !.typeFlags = @ \cup {"FormalArgMergeVar"},
                              !.mergedVar = variable],
          value |-> TRUE]

InitMergeVariable ==
    /\ scope \in MergeScopes
    /\ syntax \in FormalArgumentSyntaxes
    /\ netTypeSym = NoSymbol
    /\ results = <<FormalArgumentSymbol>>
    /\ implicitNets = <<>>
    /\ diags = <<>>
    /\ calls = <<>>
    /\ pc = "call"

FormalArgumentSymbol_mergeVariable ==
    /\ syntax.kind = "FormalArgumentDeclarator"
    /\ Len(calls) < MaxMergeCalls
    /\ \E variable \in BodyVariables :
          LET out == mergeVariable(results[1], syntax, variable)
          IN /\ results' = <<out.sym>>
             /\ calls' = Append(calls, Call("mergeVariable", 0, variable,
                                            IF out.value THEN {"true"} ELSE {}))
    /\ pc' = "done"
    /\ UNCHANGED <<scope, syntax, netTypeSym, implicitNets, diags>>

NextMergeVariable == FormalArgumentSymbol_mergeVariable

SpecMergeVariable == InitMergeVariable /\ [][NextMergeVariable]_vars

IsMergeModel == syntax.kind = "FormalArgumentDeclarator"

ReturnedTrue(c) == "true" \in c.flags

Succeeded == {i \in 1..Len(calls) : ReturnedTrue(calls[i])}

FullDefinition ==
    \/ syntax.parent # "PortDeclaration"
    \/ syntax.varKeyword
    \/ syntax.dataType # "ImplicitType"

\* C30: over any sequence of mergeVariable calls on one formal argument at
\* most one call returns true; after a call that returned true the merged
\* variable is the variable of that call for good and every later call
\* returns false; when the argument is not under a port declaration, or its
\* header has `var` or an explicit data type, every call returns false and
\* leaves the merged variable and the declared-type flags as they were.
C30_MergeOnce ==
    IsMergeModel =>
        /\ Cardinality(Succeeded) <= 1
        /\ \A i \in Succeeded :
              /\ results[1].mergedVar = calls[i].target
              /\ "FormalArgMergeVar" \in results[1].typeFlags
              /\ \A k \in (i + 1)..Len(calls) : ~ReturnedTrue(calls[k])
        /\ FullDefinition => (Succeeded = {} /\ results[1] = FormalArgumentSymbol)
        /\ Succeeded = {} => results[1] = FormalArgumentSymbol
        /\ (~FullDefinition /\ calls # <<>>) => Succeeded = {1}

\* `input x;` then `int x;` in the body: the first call merges v1, two
\* more calls, one of them with another variable, are refused.
C30_Witness ==
    /\ IsMergeModel
    /\ Len(calls) = 3
    /\ Succeeded = {1}
    /\ calls[1].target = "v1" /\ calls[2].target = "v2"
    /\ results[1].mergedVar = "v1"

\* ------------------------------------------------------------------------
\* All operations together
\* ------------------------------------------------------------------------
Init ==
    \/ InitDataDecl \/ InitContAssign \/ InitUserNet \/ InitClocking
    \/ InitClockVar \/ InitModportPort \/ InitElabTask
    \/ InitPrimitive \/ InitPrimitiveInitial
    \/ InitAssertionPort \/ InitImport \/ InitLazy \/ InitReentry
    \/ InitCaseProd \/ InitMergeVariable

Next ==
    \/ NextDataDecl \/ NextContAssign \/ NextUserNet \/ NextClocking
    \/ NextClockVar \/ NextModportPort \/ NextElabTask
    \/ NextPrimitive
    \/ NextAssertionPort \/ NextImport \/ NextLazy \/ NextReentry
    \/ NextCaseProd \/ NextMergeVariable

Spec == Init /\ [][Next]_vars

====
